---- MODULE Spec2Model ----
(***************************************************************************)
(* Second-hand Marketplace (src/market_place.py): the Marketplace          *)
(* controller, its entities and its CSV persistence, as a state machine.   *)
(*                                                                         *)
(* Representation.  A Python str is a sequence of one-character strings,   *)
(* so that title_case, upper, lower, str(int), int(str), the ".2f" format  *)
(* and float(str) are computed character by character.  A Python dict is   *)
(* the sequence of its values in insertion order (every entity carries its *)
(* key in the field id).  Money is counted in cents: a float that went     *)
(* through round(x, 2) is the integer number of cents it denotes; the      *)
(* price argument of post_listing is given in thousandths (mills), so that *)
(* round(float(price), 2) is a real rounding.  A CSV file is a record      *)
(* [exists, header, rows]; a row is what csv.DictReader yields, a record   *)
(* of strings keyed by the header names.                                   *)
(*                                                                         *)
(* Besides the four tables and the four files, lastOp, result and ret      *)
(* record the last operation and how it ended, and posted records, for     *)
(* every listing, the quantity post_listing was called with: the program   *)
(* keeps no such record, the properties about stock refer to it.           *)
(* failed_writes counts the writes of a file that have failed; it stays 0  *)
(* where the disk does not fail.  pending holds the calls of buy_listing   *)
(* that have passed the checks and not yet changed the tables; it stays    *)
(* empty where every call runs to its end before the next one starts.      *)
(***************************************************************************)
EXTENDS Integers, Sequences, FiniteSets, TLC

VARIABLES users, items, listings, orders,
          users_csv, items_csv, listings_csv, orders_csv,
          lastOp, result, ret, posted, failed_writes, pending

tables == <<users, items, listings, orders>>
files  == <<users_csv, items_csv, listings_csv, orders_csv>>
vars   == <<users, items, listings, orders,
            users_csv, items_csv, listings_csv, orders_csv,
            lastOp, result, ret, posted, failed_writes, pending>>

----------------------------------------------------------------------------
(* Bounds of the model.                                                    *)

\* identifiers drawn by generate_id: IdLow .. IdLow + NumIds - 1
NumIds == 2
\* users, listings and orders created in one behaviour, in all
MaxOps == 3
\* largest quantity offered to post_listing; buy_listing is offered one more
MaxQty == 2

----------------------------------------------------------------------------
(* Characters and strings.                                                 *)

LowerChars == <<"a","b","c","d","e","f","g","h","i","j","k","l","m",
                "n","o","p","q","r","s","t","u","v","w","x","y","z">>
UpperChars == <<"A","B","C","D","E","F","G","H","I","J","K","L","M",
                "N","O","P","Q","R","S","T","U","V","W","X","Y","Z">>
DigitChars == <<"0","1","2","3","4","5","6","7","8","9">>

IndexOf(c, chars) == IF \E i \in DOMAIN chars : chars[i] = c
                     THEN CHOOSE i \in DOMAIN chars : chars[i] = c
                     ELSE 0

upper_char(c) == IF IndexOf(c, LowerChars) # 0
                 THEN UpperChars[IndexOf(c, LowerChars)] ELSE c
lower_char(c) == IF IndexOf(c, UpperChars) # 0
                 THEN LowerChars[IndexOf(c, UpperChars)] ELSE c

\* str.upper / str.lower
upper(s) == [i \in DOMAIN s |-> upper_char(s[i])]
lower(s) == [i \in DOMAIN s |-> lower_char(s[i])]

IsSpace(c) == c \in {" ", "\t", "\n"}

\* str.strip()
RECURSIVE lstrip(_)
lstrip(s) == IF s # <<>> /\ IsSpace(Head(s)) THEN lstrip(Tail(s)) ELSE s
RECURSIVE rstrip(_)
rstrip(s) == IF s # <<>> /\ IsSpace(s[Len(s)])
             THEN rstrip(SubSeq(s, 1, Len(s) - 1)) ELSE s
strip(s) == rstrip(lstrip(s))

\* str.split(): the maximal runs of non-whitespace characters
RECURSIVE split_from(_, _, _)
split_from(s, cur, acc) ==
    IF s = <<>>
    THEN IF cur = <<>> THEN acc ELSE Append(acc, cur)
    ELSE IF IsSpace(Head(s))
         THEN split_from(Tail(s), <<>>,
                         IF cur = <<>> THEN acc ELSE Append(acc, cur))
         ELSE split_from(Tail(s), Append(cur, Head(s)), acc)
split(s) == split_from(s, <<>>, <<>>)

\* str.capitalize(): first character upper-cased, the rest lower-cased
capitalize(w) == [i \in DOMAIN w |-> IF i = 1 THEN upper_char(w[i])
                                              ELSE lower_char(w[i])]

\* " ".join(words)
RECURSIVE join(_)
join(words) == IF words = <<>> THEN <<>>
               ELSE IF Len(words) = 1 THEN words[1]
               ELSE words[1] \o <<" ">> \o join(Tail(words))

title_case(string) ==
    LET words == split(strip(string))
    IN  join([i \in DOMAIN words |-> capitalize(words[i])])

TrueStr  == <<"T","r","u","e">>
FalseStr == <<"F","a","l","s","e">>

parse_bool(string) ==
    lower(strip(string)) \in { <<"t","r","u","e">>, <<"1">>,
                               <<"y","e","s">>, <<"y">> }

bool_str(boolean) == IF boolean THEN TrueStr ELSE FalseStr

----------------------------------------------------------------------------
(* Numbers and their text forms.                                           *)

\* str(n) for an int n
RECURSIVE int_str(_)
int_str(n) == IF n < 0 THEN <<"-">> \o int_str(-n)
              ELSE IF n < 10 THEN <<DigitChars[n + 1]>>
              ELSE int_str(n \div 10) \o <<DigitChars[(n % 10) + 1]>>

\* int(s) for a string of decimal digits with an optional sign
RECURSIVE str_int(_)
str_int(s) == IF s = <<>> THEN 0
              ELSE IF Head(s) = "-" THEN 0 - str_int(Tail(s))
              ELSE 10 * str_int(SubSeq(s, 1, Len(s) - 1))
                   + (IndexOf(s[Len(s)], DigitChars) - 1)

\* round(float(price), 2), price in mills, result in cents.  The inputs of
\* the model avoid ties (mills ending in 5), where the binary value decides.
round_2(mills) ==
    LET q == mills \div 10
        r == mills % 10
    IN  IF r > 5 THEN q + 1
        ELSE IF r < 5 THEN q
        ELSE IF q % 2 = 0 THEN q ELSE q + 1

\* mutant of format_2f: f"{x:.1f}", one decimal
format_1f(cents) ==
    int_str(round_2(cents) \div 10) \o <<".">>
        \o <<DigitChars[(round_2(cents) % 10) + 1]>>

\* f"{x:.2f}" for x = cents / 100, cents >= 0
format_2f(cents) ==
    int_str(cents \div 100) \o <<".">>
        \o <<DigitChars[((cents \div 10) % 10) + 1],
              DigitChars[(cents % 10) + 1]>>

\* float(s), in cents, for s = digits [ "." digits ] with at most 2 decimals
parse_float(s) ==
    LET dot == IndexOf(".", s)
        whole == IF dot = 0 THEN s ELSE SubSeq(s, 1, dot - 1)
        frac  == IF dot = 0 THEN <<>> ELSE SubSeq(s, dot + 1, Len(s))
        frac2 == IF Len(frac) = 0 THEN <<"0","0">>
                 ELSE IF Len(frac) = 1 THEN frac \o <<"0">>
                 ELSE SubSeq(frac, 1, 2)
    IN  100 * str_int(whole) + str_int(frac2)

----------------------------------------------------------------------------
(* Constants of the program.                                               *)

Electronics == <<"E","l","e","c","t","r","o","n","i","c","s">>
Books       == <<"B","o","o","k","s">>
Furniture   == <<"F","u","r","n","i","t","u","r","e">>
Fashion     == <<"F","a","s","h","i","o","n">>
Sports      == <<"S","p","o","r","t","s">>
Home        == <<"H","o","m","e">>
Toys        == <<"T","o","y","s">>
Others      == <<"O","t","h","e","r","s">>

CATEGORIES == {Electronics, Books, Furniture, Fashion, Sports, Home, Toys, Others}

COND_NEW   == <<"N","E","W">>
LIKE_NEW   == <<"L","I","K","E","_","N","E","W">>
VERY_GOOD  == <<"V","E","R","Y","_","G","O","O","D">>
GOOD       == <<"G","O","O","D">>
ACCEPTABLE == <<"A","C","C","E","P","T","A","B","L","E">>

CONDITIONS == {COND_NEW, LIKE_NEW, VERY_GOOD, GOOD, ACCEPTABLE}

COMPLETED == <<"C","O","M","P","L","E","T","E","D">>

IdLow == 100000
IdHigh == 999999
\* the part of the identifier space the model draws from
IdTop == IF IdLow + NumIds - 1 < IdHigh THEN IdLow + NumIds - 1 ELSE IdHigh

----------------------------------------------------------------------------
(* Dictionaries: the values in insertion order, keyed by their id.         *)

Keys(t) == {t[i].id : i \in DOMAIN t}
Get(t, k) == t[CHOOSE i \in DOMAIN t : t[i].id = k]
\* dst[key] = obj
DictPut(t, e) == IF e.id \in Keys(t)
                 THEN [i \in DOMAIN t |-> IF t[i].id = e.id THEN e ELSE t[i]]
                 ELSE Append(t, e)

\* generate_id(existing): the values the loop can return
\* mutant of generate_id: the first number drawn is returned, a key of the
\* dictionary or not
generate_id_first_draw(existing) == { int_str(v) : v \in IdLow .. IdTop }

generate_id(existing) ==
    { int_str(v) : v \in IdLow .. IdTop } \ Keys(existing)

----------------------------------------------------------------------------
(* Entities and their CSV rows.                                            *)

User(user_id, username, password) ==
    [id |-> user_id, username |-> username, password |-> password]

user_to_row(u) ==
    [user_id |-> u.id, username |-> u.username, password |-> u.password]

user_headers == <<"user_id", "username", "password">>

user_from_row(row) == User(row.user_id, row.username, row.password)

Item(item_id, name, category, brand, condition, description) ==
    [id |-> item_id, name |-> name, category |-> category, brand |-> brand,
     condition |-> condition, description |-> description]

item_to_row(it) ==
    [item_id |-> it.id, name |-> it.name, category |-> it.category,
     brand |-> it.brand, condition |-> it.condition,
     description |-> it.description]

item_headers ==
    <<"item_id", "name", "category", "brand", "condition", "description">>

item_from_row(row) ==
    Item(row.item_id, row.name, row.category, row.brand, row.condition,
         row.description)

Listing(listing_id, item_id, seller_id, price, quantity, active, deleted) ==
    [id |-> listing_id, item_id |-> item_id, seller_id |-> seller_id,
     price |-> price, quantity |-> quantity, active |-> active,
     deleted |-> deleted]

listing_to_row(l) ==
    [listing_id |-> l.id, item_id |-> l.item_id, seller_id |-> l.seller_id,
     price |-> format_2f(l.price), quantity |-> int_str(l.quantity),
     active |-> bool_str(l.active), deleted |-> bool_str(l.deleted)]

listing_headers ==
    <<"listing_id", "item_id", "seller_id", "price", "quantity", "active",
      "deleted">>

\* row.get(key, "0") or 0: an empty field counts as 0
float_or_0(field) == IF field = <<>> THEN 0 ELSE parse_float(field)
int_or_0(field)   == IF field = <<>> THEN 0 ELSE str_int(field)

listing_from_row(row) ==
    Listing(row.listing_id, row.item_id, row.seller_id,
            float_or_0(row.price), int_or_0(row.quantity),
            parse_bool(row.active), parse_bool(row.deleted))

Order(order_id, buyer_id, seller_id, listing_id, unit_price, quantity, total_price, status) ==
    [id |-> order_id, buyer_id |-> buyer_id, seller_id |-> seller_id,
     listing_id |-> listing_id, unit_price |-> unit_price,
     quantity |-> quantity, total_price |-> total_price, status |-> status]

order_to_row(o) ==
    [order_id |-> o.id, buyer_id |-> o.buyer_id, seller_id |-> o.seller_id,
     listing_id |-> o.listing_id, unit_price |-> format_2f(o.unit_price),
     quantity |-> int_str(o.quantity),
     total_price |-> format_2f(o.total_price), status |-> o.status]

order_headers ==
    <<"order_id", "buyer_id", "seller_id", "listing_id", "unit_price",
      "quantity", "total_price", "status">>

order_from_row(row) ==
    Order(row.order_id, row.buyer_id, row.seller_id, row.listing_id,
          float_or_0(row.unit_price), int_or_0(row.quantity),
          float_or_0(row.total_price), row.status)

----------------------------------------------------------------------------
(* CSV I/O.                                                                *)

NoFile == [exists |-> FALSE, header |-> <<>>, rows |-> <<>>]

\* ensure_csv: a missing file is created with the header only
ensure_csv(file, headers) ==
    IF ~file.exists THEN [exists |-> TRUE, header |-> headers, rows |-> <<>>]
    ELSE file

\* from_row_func(row), for the function _load_csv is given
from_row(from_row_func, row) ==
    CASE from_row_func = "user_from_row" -> user_from_row(row)
      [] from_row_func = "item_from_row" -> item_from_row(row)
      [] from_row_func = "listing_from_row" -> listing_from_row(row)
      [] from_row_func = "order_from_row" -> order_from_row(row)

\* the loop of _load_csv, dst[row[id_key]] = obj, over the objects made of
\* the rows kept (every from_row function stores row[id_key] in the field id)
RECURSIVE load_rows(_, _)
load_rows(objs, dst) ==
    IF objs = <<>> THEN dst
    ELSE load_rows(Tail(objs), DictPut(dst, Head(objs)))

\* _load_csv: the dictionary it leaves in dst, cleared first; a row whose
\* key field is empty is skipped
load_csv(file, headers, from_row_func, id_key) ==
    LET rows == ensure_csv(file, headers).rows
        kept == SelectSeq(rows, LAMBDA row : row[id_key] # <<>>)
    IN  load_rows([i \in DOMAIN kept |-> from_row(from_row_func, kept[i])],
                  <<>>)

\* one_object.to_row(), by the class of the object
to_row(one_object) ==
    CASE "username" \in DOMAIN one_object -> user_to_row(one_object)
      [] "category" \in DOMAIN one_object -> item_to_row(one_object)
      [] "active" \in DOMAIN one_object -> listing_to_row(one_object)
      [] "buyer_id" \in DOMAIN one_object -> order_to_row(one_object)

\* _save_csv: the file it leaves at path
save_csv(headers, source) ==
    [exists |-> TRUE, header |-> headers,
     rows |-> [i \in DOMAIN source |-> to_row(source[i])]]

\* mutant of save_all_csv: the orders are not written
save_all_csv_no_orders(us, its, ls, os) ==
    /\ users_csv'    = save_csv(user_headers, us)
    /\ items_csv'    = save_csv(item_headers, its)
    /\ listings_csv' = save_csv(listing_headers, ls)
    /\ orders_csv'   = orders_csv

\* save_all_csv, on the tables an operation is about to leave
save_all_csv(us, its, ls, os) ==
    /\ users_csv'    = save_csv(user_headers, us)
    /\ items_csv'    = save_csv(item_headers, its)
    /\ listings_csv' = save_csv(listing_headers, ls)
    /\ orders_csv'   = save_csv(order_headers, os)

\* mutant of load_all_csv: the tables are not cleared before the rows are
\* read into them
load_all_csv_not_cleared ==
    /\ users_csv'    = ensure_csv(users_csv, user_headers)
    /\ items_csv'    = ensure_csv(items_csv, item_headers)
    /\ listings_csv' = ensure_csv(listings_csv, listing_headers)
    /\ orders_csv'   = ensure_csv(orders_csv, order_headers)
    /\ users'    = load_rows(load_csv(users_csv, user_headers,
                                      "user_from_row", "user_id"), users)
    /\ items'    = load_rows(load_csv(items_csv, item_headers,
                                      "item_from_row", "item_id"), items)
    /\ listings' = load_rows(load_csv(listings_csv, listing_headers,
                                      "listing_from_row", "listing_id"),
                             listings)
    /\ orders'   = load_rows(load_csv(orders_csv, order_headers,
                                      "order_from_row", "order_id"), orders)
    /\ lastOp' = "load_all_csv"
    /\ result' = "ok"
    /\ ret' = <<>>
    /\ UNCHANGED <<posted, failed_writes, pending>>

load_all_csv ==
    /\ users_csv'    = ensure_csv(users_csv, user_headers)
    /\ items_csv'    = ensure_csv(items_csv, item_headers)
    /\ listings_csv' = ensure_csv(listings_csv, listing_headers)
    /\ orders_csv'   = ensure_csv(orders_csv, order_headers)
    /\ users'    = load_csv(users_csv, user_headers, "user_from_row",
                            "user_id")
    /\ items'    = load_csv(items_csv, item_headers, "item_from_row",
                            "item_id")
    /\ listings' = load_csv(listings_csv, listing_headers,
                            "listing_from_row", "listing_id")
    /\ orders'   = load_csv(orders_csv, order_headers, "order_from_row",
                            "order_id")
    /\ lastOp' = "load_all_csv"
    /\ result' = "ok"
    /\ ret' = <<>>
    /\ UNCHANGED <<posted, failed_writes, pending>>

----------------------------------------------------------------------------------------------------------------------------------------
(* Operations of the controller.  lastOp is the operation that ran last    *)
(* and result how it ended: "ok" when it returned, the message of its      *)
(* ValueError when it raised.  ret is the value it returned: a list for    *)
(* the searches, a triple for price_suggestion, and for the others the     *)
(* entity returned in a list of one element, None being the empty list.    *)

\* the operations that have added an entity: every successful register,
\* post_listing and buy_listing adds a user, a listing or an order
Done == Len(users) + Len(listings) + Len(orders)

OK == "ok"

Raise(op, message) ==
    /\ lastOp' = op
    /\ result' = message
    /\ ret' = <<>>
    /\ UNCHANGED <<tables, files, posted, failed_writes, pending>>

Return(op, value) ==
    /\ lastOp' = op
    /\ result' = OK
    /\ ret' = value
    /\ UNCHANGED <<failed_writes, pending>>

username_taken(user_name) ==
    \E i \in DOMAIN users : lower(users[i].username) = lower(user_name)

\* mutant of register_check: the usernames already in the table are not
\* looked at
register_check_no_conflict(username, password) ==
    LET user_name == title_case(username)
    IN  IF user_name = <<>> \/ password = <<>>
        THEN "Username and password cannot be empty."
        ELSE OK

\* the checks of register, in the order of the code
register_check(username, password) ==
    LET user_name == title_case(username)
    IN  IF user_name = <<>> \/ password = <<>>
        THEN "Username and password cannot be empty."
        ELSE IF username_taken(user_name)
        THEN "Username already exists."
        ELSE OK

\* mutant of register: the password is normalized as the username is
register_password_normalized(username, password) ==
    IF register_check(username, password) # OK
    THEN Raise("register", register_check(username, password))
    ELSE \E user_id \in generate_id(users) :
           LET user == User(user_id, title_case(username),
                            title_case(password))
           IN  /\ Done < MaxOps
               /\ users' = DictPut(users, user)
               /\ UNCHANGED <<items, listings, orders, posted>>
               /\ save_all_csv(users', items, listings, orders)
               /\ Return("register", <<user>>)

register(username, password) ==
    IF register_check(username, password) # OK
    THEN Raise("register", register_check(username, password))
    ELSE \E user_id \in generate_id(users) :
           LET user == User(user_id, title_case(username), password)
           IN  /\ Done < MaxOps
               /\ users' = DictPut(users, user)
               /\ UNCHANGED <<items, listings, orders, posted>>
               /\ save_all_csv(users', items, listings, orders)
               /\ Return("register", <<user>>)

\* mutant of login_value: the password is compared ignoring case
login_value_any_case(username, password) ==
    LET uname == title_case(username)
        found == SelectSeq(users, LAMBDA user :
                     /\ user.username = uname
                     /\ lower(user.password) = lower(password))
    IN  IF found = <<>> THEN <<>> ELSE <<Head(found)>>

\* what login returns: the first user that matches, or None (<<>>)
login_value(username, password) ==
    LET uname == title_case(username)
        found == SelectSeq(users, LAMBDA user :
                     user.username = uname /\ user.password = password)
    IN  IF found = <<>> THEN <<>> ELSE <<Head(found)>>

login(username, password) ==
    /\ Return("login", login_value(username, password))
    /\ UNCHANGED <<tables, files, posted>>

\* the checks of post_listing, in the order of the code
post_listing_check(category, condition, price, quantity) ==
    IF title_case(category) \notin CATEGORIES
    THEN "Unknown category."
    ELSE IF upper(strip(condition)) \notin CONDITIONS
    THEN "Unknown condition."
    ELSE IF price <= 0 \/ quantity <= 0
    THEN "Price and quantity must be positive."
    ELSE OK

\* mutant of post_listing: the item is built and not put in the table
post_listing_item_not_stored(seller, name, category, brand, condition, description, price, quantity) ==
    IF post_listing_check(category, condition, price, quantity) # OK
    THEN Raise("post_listing",
               post_listing_check(category, condition, price, quantity))
    ELSE \E item_id \in generate_id(items) :
           \E listing_id \in generate_id(listings) :
                 LET listing == Listing(listing_id, item_id, seller.id,
                                        round_2(price), quantity,
                                        TRUE, FALSE)
                 IN  /\ Done < MaxOps
                     /\ listings' = DictPut(listings, listing)
                     /\ posted' = Append(posted,
                            [id |-> listing.id, quantity |-> quantity])
                     /\ UNCHANGED <<users, items, orders>>
                     /\ save_all_csv(users, items, listings', orders)
                     /\ Return("post_listing", <<listing>>)

\* mutant of post_listing: the id of the item is drawn against the table of
\* listings
post_listing_item_id_of_listings(seller, name, category, brand, condition, description, price, quantity) ==
    IF post_listing_check(category, condition, price, quantity) # OK
    THEN Raise("post_listing",
               post_listing_check(category, condition, price, quantity))
    ELSE \E item_id \in generate_id(listings) :
           LET item == Item(item_id, title_case(name), title_case(category),
                            title_case(brand), upper(strip(condition)),
                            title_case(description))
           IN  \E listing_id \in generate_id(listings) :
                 LET listing == Listing(listing_id, item.id, seller.id,
                                        round_2(price), quantity,
                                        TRUE, FALSE)
                 IN  /\ Done < MaxOps
                     /\ items' = DictPut(items, item)
                     /\ listings' = DictPut(listings, listing)
                     /\ posted' = Append(posted,
                            [id |-> listing.id, quantity |-> quantity])
                     /\ UNCHANGED <<users, orders>>
                     /\ save_all_csv(users, items', listings', orders)
                     /\ Return("post_listing", <<listing>>)

post_listing(seller, name, category, brand, condition, description, price, quantity) ==
    IF post_listing_check(category, condition, price, quantity) # OK
    THEN Raise("post_listing",
               post_listing_check(category, condition, price, quantity))
    ELSE \E item_id \in generate_id(items) :
           LET item == Item(item_id, title_case(name), title_case(category),
                            title_case(brand), upper(strip(condition)),
                            title_case(description))
           IN  \E listing_id \in generate_id(listings) :
                 LET listing == Listing(listing_id, item.id, seller.id,
                                        round_2(price), quantity,
                                        TRUE, FALSE)
                 IN  /\ Done < MaxOps
                     /\ items' = DictPut(items, item)
                     /\ listings' = DictPut(listings, listing)
                     /\ posted' = Append(posted,
                            [id |-> listing.id, quantity |-> quantity])
                     /\ UNCHANGED <<users, orders>>
                     /\ save_all_csv(users, items', listings', orders)
                     /\ Return("post_listing", <<listing>>)

\* mutant of delete_listing_check: a listing is deleted once
delete_listing_check_once(seller, listing_id) ==
    IF listing_id \notin Keys(listings)
    THEN "Listing not found."
    ELSE IF Get(listings, listing_id).seller_id # seller.id
    THEN "You can only delete your own listings."
    ELSE IF Get(listings, listing_id).deleted
    THEN "Listing not found."
    ELSE OK

\* the checks of delete_listing, in the order of the code
delete_listing_check(seller, listing_id) ==
    IF listing_id \notin Keys(listings)
    THEN "Listing not found."
    ELSE IF Get(listings, listing_id).seller_id # seller.id
    THEN "You can only delete your own listings."
    ELSE OK

\* mutant of soft_deleted: the listing is flagged deleted and left active
soft_deleted_still_active(listing) == [listing EXCEPT !.deleted = TRUE]

\* mutant of soft_deleted: the stock of the listing is cleared as well
soft_deleted_stock_cleared(listing) ==
    [listing EXCEPT !.deleted = TRUE, !.active = FALSE, !.quantity = 0]

\* listing.deleted = True; listing.active = False
soft_deleted(listing) == [listing EXCEPT !.deleted = TRUE, !.active = FALSE]

\* mutant of delete_listing: the listing is flagged before the seller is
\* compared with its owner
delete_listing_flag_first(seller, listing_id) ==
    IF listing_id \notin Keys(listings)
    THEN Raise("delete_listing", "Listing not found.")
    ELSE LET listing == Get(listings, listing_id)
         IN  /\ listings' = DictPut(listings, soft_deleted(listing))
             /\ UNCHANGED <<users, items, orders, posted>>
             /\ IF delete_listing_check(seller, listing_id) # OK
                THEN /\ lastOp' = "delete_listing"
                     /\ result' = delete_listing_check(seller, listing_id)
                     /\ ret' = <<>>
                     /\ UNCHANGED <<files, failed_writes, pending>>
                ELSE /\ save_all_csv(users, items, listings', orders)
                     /\ Return("delete_listing", <<>>)

\* mutant of delete_listing: the orders of the listing are dropped with it
delete_listing_with_orders(seller, listing_id) ==
    IF delete_listing_check(seller, listing_id) # OK
    THEN Raise("delete_listing", delete_listing_check(seller, listing_id))
    ELSE LET listing == Get(listings, listing_id)
         IN  /\ listings' = DictPut(listings, soft_deleted(listing))
             /\ orders' = SelectSeq(orders,
                              LAMBDA o : o.listing_id # listing_id)
             /\ UNCHANGED <<users, items, posted>>
             /\ save_all_csv(users, items, listings', orders')
             /\ Return("delete_listing", <<>>)

\* mutant of delete_listing: the listing is taken out of the table
delete_listing_hard(seller, listing_id) ==
    IF delete_listing_check(seller, listing_id) # OK
    THEN Raise("delete_listing", delete_listing_check(seller, listing_id))
    ELSE /\ listings' = SelectSeq(listings, LAMBDA l : l.id # listing_id)
         /\ UNCHANGED <<users, items, orders, posted>>
         /\ save_all_csv(users, items, listings', orders)
         /\ Return("delete_listing", <<>>)

delete_listing(seller, listing_id) ==
    IF delete_listing_check(seller, listing_id) # OK
    THEN Raise("delete_listing", delete_listing_check(seller, listing_id))
    ELSE LET listing == Get(listings, listing_id)
         IN  /\ listings' = DictPut(listings, soft_deleted(listing))
             /\ UNCHANGED <<users, items, orders, posted>>
             /\ save_all_csv(users, items, listings', orders)
             /\ Return("delete_listing", <<>>)

\* mutant of search_by_category_value: the query is compared as typed
search_by_category_value_as_typed(category) ==
    SelectSeq(listings, LAMBDA listing :
        /\ ~listing.deleted
        /\ listing.active
        /\ listing.quantity > 0
        /\ Get(items, listing.item_id).category = category)

\* what search_by_category returns
search_by_category_value(category) ==
    LET cat == title_case(category)
    IN  SelectSeq(listings, LAMBDA listing :
            /\ ~listing.deleted
            /\ listing.active
            /\ listing.quantity > 0
            /\ Get(items, listing.item_id).category = cat)

search_by_category(category) ==
    /\ Return("search_by_category", search_by_category_value(category))
    /\ UNCHANGED <<tables, files, posted>>

\* mutant of search_by_full_name_value: every listing that is not deleted
\* is shown, sold out or not
search_by_full_name_value_not_deleted(full_name) ==
    LET target == title_case(full_name)
    IN  SelectSeq(listings, LAMBDA listing :
            /\ ~listing.deleted
            /\ Get(items, listing.item_id).name = target)

\* what search_by_full_name returns
search_by_full_name_value(full_name) ==
    LET target == title_case(full_name)
    IN  SelectSeq(listings, LAMBDA listing :
            /\ ~listing.deleted
            /\ listing.active
            /\ listing.quantity > 0
            /\ Get(items, listing.item_id).name = target)

search_by_full_name(full_name) ==
    /\ Return("search_by_full_name", search_by_full_name_value(full_name))
    /\ UNCHANGED <<tables, files, posted>>

\* CATEGORY_BASELINE, in whole currency units
CATEGORY_BASELINE(category) ==
    CASE category = Electronics -> 300
      [] category = Books -> 20
      [] category = Furniture -> 150
      [] category = Fashion -> 50
      [] category = Sports -> 80
      [] category = Home -> 60
      [] category = Toys -> 25
      [] category = Others -> 40

\* CONDITION_MULTIPLIER, in hundredths
CONDITION_MULTIPLIER(condition) ==
    CASE condition = COND_NEW -> 100
      [] condition = LIKE_NEW -> 90
      [] condition = VERY_GOOD -> 80
      [] condition = GOOD -> 65
      [] condition = ACCEPTABLE -> 50

\* the multiplier of an unknown condition, in hundredths
DefaultMultiplier == 65

\* mutant of price_suggestion_value: the category and the condition are
\* looked up as typed
price_suggestion_value_as_typed(category, condition) ==
    LET baseline == IF category \in CATEGORIES
                    THEN CATEGORY_BASELINE(category)
                    ELSE CATEGORY_BASELINE(Others)
        multiplier == IF condition \in CONDITIONS
                      THEN CONDITION_MULTIPLIER(condition)
                      ELSE DefaultMultiplier
        suggestion_price == round_2(baseline * multiplier * 10)
    IN  <<suggestion_price, round_2(suggestion_price * 9),
          round_2(suggestion_price * 11)>>

\* what price_suggestion returns, in cents
price_suggestion_value(category, condition) ==
    LET cat == title_case(category)
        baseline == IF cat \in CATEGORIES THEN CATEGORY_BASELINE(cat)
                    ELSE CATEGORY_BASELINE(Others)
        cond_up == upper(strip(condition))
        multiplier == IF cond_up \in CONDITIONS
                      THEN CONDITION_MULTIPLIER(cond_up)
                      ELSE DefaultMultiplier
        suggestion_price == round_2(baseline * multiplier * 10)
    IN  <<suggestion_price, round_2(suggestion_price * 9),
          round_2(suggestion_price * 11)>>

price_suggestion(category, condition) ==
    /\ Return("price_suggestion", price_suggestion_value(category, condition))
    /\ UNCHANGED <<tables, files, posted>>

\* mutant of buy_listing_check: the quantity is looked at before the state
\* of the listing
buy_listing_check_quantity_first(listing_id, quantity) ==
    IF listing_id \notin Keys(listings)
    THEN "Listing not found."
    ELSE LET listing == Get(listings, listing_id)
         IN  IF quantity <= 0 \/ quantity > listing.quantity
             THEN "Invalid quantity."
             ELSE IF listing.deleted \/ ~listing.active
                        \/ listing.quantity <= 0
             THEN "Listing not available."
             ELSE OK

\* mutant of buy_listing_check: the quantity is not compared with the stock
buy_listing_check_no_stock(listing_id, quantity) ==
    IF listing_id \notin Keys(listings)
    THEN "Listing not found."
    ELSE LET listing == Get(listings, listing_id)
         IN  IF listing.deleted \/ ~listing.active \/ listing.quantity <= 0
             THEN "Listing not available."
             ELSE IF quantity <= 0
             THEN "Invalid quantity."
             ELSE OK

\* the checks of buy_listing, in the order of the code
buy_listing_check(listing_id, quantity) ==
    IF listing_id \notin Keys(listings)
    THEN "Listing not found."
    ELSE LET listing == Get(listings, listing_id)
         IN  IF listing.deleted \/ ~listing.active \/ listing.quantity <= 0
             THEN "Listing not available."
             ELSE IF quantity <= 0 \/ quantity > listing.quantity
             THEN "Invalid quantity."
             ELSE OK

\* mutant of bought: the listing is deactivated by every purchase
bought_always_inactive(listing, quantity) ==
    [listing EXCEPT !.quantity = listing.quantity - quantity,
                    !.active = FALSE]

\* mutant of bought: the listing is deactivated below zero only
bought_off_by_one(listing, quantity) ==
    [listing EXCEPT !.quantity = listing.quantity - quantity,
                    !.active = IF listing.quantity - quantity < 0
                               THEN FALSE ELSE listing.active]

\* mutant of bought: one unit is taken from the stock, whatever was bought
bought_one_unit(listing, quantity) ==
    [listing EXCEPT !.quantity = listing.quantity - 1,
                    !.active = IF listing.quantity - 1 <= 0
                               THEN FALSE ELSE listing.active]

\* listing.quantity -= quantity; if listing.quantity <= 0: active = False
bought(listing, quantity) ==
    [listing EXCEPT !.quantity = listing.quantity - quantity,
                    !.active = IF listing.quantity - quantity <= 0
                               THEN FALSE ELSE listing.active]

\* mutant of new_order: the total is the price of one unit
new_order_total_of_one(order_id, buyer, listing, quantity) ==
    Order(order_id, buyer.id, listing.seller_id, listing.id, listing.price,
          quantity, round_2(listing.price * 10), COMPLETED)

\* the order buy_listing creates; the product of a price in cents and a
\* quantity is rounded from mills, as round(listing.price * quantity, 2)
new_order(order_id, buyer, listing, quantity) ==
    Order(order_id, buyer.id, listing.seller_id, listing.id, listing.price,
          quantity, round_2(listing.price * quantity * 10), COMPLETED)

\* mutant of buy_listing: the order is stored before the listing and the
\* quantity are checked
buy_listing_order_first(buyer, listing_id, quantity) ==
    IF listing_id \notin Keys(listings)
    THEN Raise("buy_listing", "Listing not found.")
    ELSE \E order_id \in generate_id(orders) :
           LET listing == Get(listings, listing_id)
               order == new_order(order_id, buyer, listing, quantity)
           IN  /\ Done < MaxOps
               /\ orders' = DictPut(orders, order)
               /\ IF buy_listing_check(listing_id, quantity) # OK
                  THEN /\ lastOp' = "buy_listing"
                       /\ result' = buy_listing_check(listing_id, quantity)
                       /\ ret' = <<>>
                       /\ UNCHANGED <<users, items, listings, files, posted,
                                      failed_writes, pending>>
                  ELSE /\ listings' = DictPut(listings,
                                              bought(listing, quantity))
                       /\ UNCHANGED <<users, items, posted>>
                       /\ save_all_csv(users, items, listings', orders')
                       /\ Return("buy_listing", <<order>>)

buy_listing(buyer, listing_id, quantity) ==
    IF buy_listing_check(listing_id, quantity) # OK
    THEN Raise("buy_listing", buy_listing_check(listing_id, quantity))
    ELSE \E order_id \in generate_id(orders) :
           LET listing == Get(listings, listing_id)
               order == new_order(order_id, buyer, listing, quantity)
           IN  /\ Done < MaxOps
               /\ orders' = DictPut(orders, order)
               /\ listings' = DictPut(listings, bought(listing, quantity))
               /\ UNCHANGED <<users, items, posted>>
               /\ save_all_csv(users, items, listings', orders')
               /\ Return("buy_listing", <<order>>)

\* listing_status: the status shown for a listing
listing_status(listing) ==
    IF listing.deleted THEN "DELETED"
    ELSE IF listing.quantity <= 0 THEN "SOLD_OUT"
    ELSE IF ~listing.active THEN "INACTIVE"
    ELSE "ACTIVE"

----------------------------------------------------------------------------
(* Inputs.                                                                 *)

UsernameInputs == { <<>>, <<"a","l">>, <<" ","A","L"," ">>,
                    <<"b"," "," ","O">> }
PasswordInputs == { <<>>, <<"p","w">> }
LoginUsernameInputs == { <<"A","L"," ">>, <<"b","o">> }
LoginPasswordInputs == { <<"p","w">>, <<"P","W">> }

\* the forms post_listing is called with; prices are in mills
Form(name, category, brand, condition, description, price, quantity) ==
    [name |-> name, category |-> category, brand |-> brand,
     condition |-> condition, description |-> description,
     price |-> price, quantity |-> quantity]
tv      == <<"t","v">>
mac_pro == <<" ","m","a","c"," "," ","p","r","o">>
PostInputs ==
    { Form(tv, <<"e","l","e","c","t","r","o","n","i","c","s">>, <<"l","g">>,
           <<" ","g","o","o","d">>, <<>>, 2506, MaxQty),
      \* a positive price that rounds to 0.00
      Form(mac_pro, <<" ","B","O","O","K","S">>, <<"a","p","p","l","e">>,
           <<"n","e","w">>, <<"a","s"," ","i","s">>, 4, 1),
      Form(tv, <<"j","u","n","k">>, <<"l","g">>, <<"g","o","o","d">>,
           <<>>, 2506, 1),
      Form(tv, Electronics, <<"l","g">>, <<"u","s","e","d">>, <<>>, 2506, 1),
      Form(tv, Electronics, <<"l","g">>, GOOD, <<>>, 0, 1),
      Form(tv, Electronics, <<"l","g">>, GOOD, <<>>, 2506, 0) }

BuyQuantityInputs == 0 .. MaxQty + 1
ListingIdInputs == { int_str(v) : v \in IdLow .. IdTop }
NameQueries == { <<"T","V">>, <<"m","a","c"," ","p","r","o">>, <<"t">> }
CategoryQueries == { <<"E","L","E","C","T","R","O","N","I","C","S">>,
                     <<"b","o","o","k","s"," ">>, <<"t","o","y","s">> }
SuggestionInputs == { <<Electronics, COND_NEW>>,
                      <<<<"u","n","k","n","o","w","n">>, COND_NEW>>,
                      <<Others, <<"n","e","w">>>>,
                      <<<<"t","o","y","s">>, <<"u","s","e","d">>>> }

Init ==
    /\ users = <<>>
    /\ items = <<>>
    /\ listings = <<>>
    /\ orders = <<>>
    /\ users_csv = NoFile
    /\ items_csv = NoFile
    /\ listings_csv = NoFile
    /\ orders_csv = NoFile
    /\ lastOp = "init"
    /\ result = "ok"
    /\ ret = <<>>
    /\ posted = <<>>
    /\ failed_writes = 0
    /\ pending = <<>>

Next ==
    \/ load_all_csv
    \/ \E username \in UsernameInputs, password \in PasswordInputs :
          register(username, password)
    \/ \E username \in LoginUsernameInputs, password \in LoginPasswordInputs :
          login(username, password)
    \/ \E i \in DOMAIN users, f \in PostInputs :
          post_listing(users[i], f.name, f.category, f.brand, f.condition,
                       f.description, f.price, f.quantity)
    \/ \E i \in DOMAIN users, listing_id \in ListingIdInputs :
          delete_listing(users[i], listing_id)
    \/ \E category \in CategoryQueries : search_by_category(category)
    \/ \E full_name \in NameQueries : search_by_full_name(full_name)
    \/ \E in \in SuggestionInputs : price_suggestion(in[1], in[2])
    \/ \E i \in DOMAIN users, listing_id \in ListingIdInputs,
          quantity \in BuyQuantityInputs :
          buy_listing(users[i], listing_id, quantity)

Spec == Init /\ [][Next]_vars

----------------------------------------------------------------------------
(* Failing writes.  _save_csv opens its file for writing and writes the    *)
(* rows; nothing in the program catches an OSError, so a write that fails  *)
(* ends save_all_csv and the operation that called it at that point.  In   *)
(* the operations below the k-th of the four writes fails, either when the *)
(* file is opened, which leaves the file as it was, or once it is open,    *)
(* which leaves it truncated.                                              *)

OSError == "OSError"

\* the ways the write of a file fails
FailureModes == { "open", "write" }

\* a file opened for writing of which nothing reached the disk
Truncated == [exists |-> TRUE, header |-> <<>>, rows |-> <<>>]

\* the file a failed _save_csv leaves
failed_save_csv(file, mode) == IF mode = "open" THEN file ELSE Truncated

\* mutant of save_all_csv_fails: the files are written in the order
\* orders, listings, items, users
save_all_csv_fails_orders_first(k, mode, us, its, ls, os) ==
    /\ orders_csv'   = IF k > 1 THEN save_csv(order_headers, os)
                       ELSE failed_save_csv(orders_csv, mode)
    /\ listings_csv' = IF k > 2 THEN save_csv(listing_headers, ls)
                       ELSE IF k = 2 THEN failed_save_csv(listings_csv, mode)
                       ELSE listings_csv
    /\ items_csv'    = IF k > 3 THEN save_csv(item_headers, its)
                       ELSE IF k = 3 THEN failed_save_csv(items_csv, mode)
                       ELSE items_csv
    /\ users_csv'    = IF k = 4 THEN failed_save_csv(users_csv, mode)
                       ELSE users_csv

\* save_all_csv when the k-th write fails: the files before it are
\* written, the files after it are not reached
save_all_csv_fails(k, mode, us, its, ls, os) ==
    /\ users_csv'    = IF k > 1 THEN save_csv(user_headers, us)
                       ELSE failed_save_csv(users_csv, mode)
    /\ items_csv'    = IF k > 2 THEN save_csv(item_headers, its)
                       ELSE IF k = 2 THEN failed_save_csv(items_csv, mode)
                       ELSE items_csv
    /\ listings_csv' = IF k > 3 THEN save_csv(listing_headers, ls)
                       ELSE IF k = 3 THEN failed_save_csv(listings_csv, mode)
                       ELSE listings_csv
    /\ orders_csv'   = IF k = 4 THEN failed_save_csv(orders_csv, mode)
                       ELSE orders_csv

\* writes that fail in one behaviour
MaxFailures == 1

\* the operation ends with the OSError of the write
RaiseOSError(op) ==
    /\ failed_writes < MaxFailures
    /\ failed_writes' = failed_writes + 1
    /\ UNCHANGED pending
    /\ lastOp' = op
    /\ result' = OSError
    /\ ret' = <<>>

register_save_fails(username, password, k, mode) ==
    /\ register_check(username, password) = OK
    /\ \E user_id \in generate_id(users) :
          LET user == User(user_id, title_case(username), password)
          IN  /\ Done < MaxOps
              /\ users' = DictPut(users, user)
              /\ UNCHANGED <<items, listings, orders, posted>>
              /\ save_all_csv_fails(k, mode, users', items, listings, orders)
              /\ RaiseOSError("register")

\* posted is a record of the calls and grows with every listing posted; a
\* listing whose write failed can be lost and posted again, so the calls
\* whose write fails are counted against MaxOps
post_listing_save_fails(seller, name, category, brand, condition, description, price, quantity, k, mode) ==
    /\ post_listing_check(category, condition, price, quantity) = OK
    /\ \E item_id \in generate_id(items) :
          LET item == Item(item_id, title_case(name), title_case(category),
                           title_case(brand), upper(strip(condition)),
                           title_case(description))
          IN  \E listing_id \in generate_id(listings) :
                LET listing == Listing(listing_id, item.id, seller.id,
                                       round_2(price), quantity,
                                       TRUE, FALSE)
                IN  /\ Done < MaxOps
                    /\ Len(posted) < MaxOps
                    /\ items' = DictPut(items, item)
                    /\ listings' = DictPut(listings, listing)
                    /\ posted' = Append(posted,
                           [id |-> listing.id, quantity |-> quantity])
                    /\ UNCHANGED <<users, orders>>
                    /\ save_all_csv_fails(k, mode, users, items', listings',
                                          orders)
                    /\ RaiseOSError("post_listing")

delete_listing_save_fails(seller, listing_id, k, mode) ==
    /\ delete_listing_check(seller, listing_id) = OK
    /\ LET listing == Get(listings, listing_id)
       IN  /\ listings' = DictPut(listings, soft_deleted(listing))
           /\ UNCHANGED <<users, items, orders, posted>>
           /\ save_all_csv_fails(k, mode, users, items, listings', orders)
           /\ RaiseOSError("delete_listing")

buy_listing_save_fails(buyer, listing_id, quantity, k, mode) ==
    /\ buy_listing_check(listing_id, quantity) = OK
    /\ \E order_id \in generate_id(orders) :
          LET listing == Get(listings, listing_id)
              order == new_order(order_id, buyer, listing, quantity)
          IN  /\ Done < MaxOps
              /\ orders' = DictPut(orders, order)
              /\ listings' = DictPut(listings, bought(listing, quantity))
              /\ UNCHANGED <<users, items, posted>>
              /\ save_all_csv_fails(k, mode, users, items, listings', orders')
              /\ RaiseOSError("buy_listing")

\* the inputs of the operations on a disk whose writes can fail: one user,
\* one form, every listing id and every quantity
IOUsernameInputs == { <<"a","l">> }
IOPasswordInputs == { <<"p","w">> }
IOPostInputs == { f \in PostInputs : f.name = tv /\ f.quantity = MaxQty }

\* the operations that read or write the files, on a disk whose writes can
\* fail; login, the searches and price_suggestion touch no table and no
\* file and are left to Next
NextIO ==
    \/ load_all_csv
    \/ \E username \in IOUsernameInputs, password \in IOPasswordInputs :
          register(username, password)
    \/ \E i \in DOMAIN users, f \in IOPostInputs :
          /\ Len(posted) < MaxOps
          /\ post_listing(users[i], f.name, f.category, f.brand,
                          f.condition, f.description, f.price, f.quantity)
    \/ \E i \in DOMAIN users, listing_id \in ListingIdInputs :
          delete_listing(users[i], listing_id)
    \/ \E i \in DOMAIN users, listing_id \in ListingIdInputs,
          quantity \in BuyQuantityInputs :
          buy_listing(users[i], listing_id, quantity)
    \/ \E username \in IOUsernameInputs, password \in IOPasswordInputs,
          k \in 1 .. 4, mode \in FailureModes :
          register_save_fails(username, password, k, mode)
    \/ \E i \in DOMAIN users, f \in IOPostInputs, k \in 1 .. 4,
          mode \in FailureModes :
          post_listing_save_fails(users[i], f.name, f.category, f.brand,
                                  f.condition, f.description, f.price,
                                  f.quantity, k, mode)
    \/ \E i \in DOMAIN users, listing_id \in ListingIdInputs, k \in 1 .. 4,
          mode \in FailureModes :
          delete_listing_save_fails(users[i], listing_id, k, mode)
    \/ \E i \in DOMAIN users, listing_id \in ListingIdInputs,
          quantity \in BuyQuantityInputs, k \in 1 .. 4,
          mode \in FailureModes :
          buy_listing_save_fails(users[i], listing_id, quantity, k, mode)

SpecIO == Init /\ [][NextIO]_vars

----------------------------------------------------------------------------
(* Calls of buy_listing that overlap.  The program runs one call at a time *)
(* to its end.  Here buy_listing is cut after its last check (line 735):   *)
(* a call that has passed the checks waits in pending, and other calls can *)
(* run before it creates its order and decrements the stock (lines 736 to  *)
(* 752), as they could if several threads called one controller.          *)

\* calls of buy_listing in one behaviour
MaxCalls == 2

\* a call that has passed the checks: its arguments, and the stock of the
\* listing when it was checked
Call(buyer, listing_id, quantity, seen) ==
    [buyer |-> buyer, listing_id |-> listing_id, quantity |-> quantity,
     seen |-> seen]

\* mutant of buy_listing_validate: the quantity asked is not compared with
\* the stock
buy_listing_validate_any_quantity(buyer, listing_id, quantity) ==
    /\ Len(orders) + Len(pending) < MaxCalls
    /\ IF buy_listing_check_no_stock(listing_id, quantity) # OK
       THEN Raise("buy_listing", buy_listing_check_no_stock(listing_id,
                                                           quantity))
       ELSE /\ pending' = Append(pending,
                              Call(buyer, listing_id, quantity,
                                   Get(listings, listing_id).quantity))
            /\ UNCHANGED <<tables, files, lastOp, result, ret, posted,
                           failed_writes>>

\* buy_listing up to its last check (lines 725 to 735)
buy_listing_validate(buyer, listing_id, quantity) ==
    /\ Len(orders) + Len(pending) < MaxCalls
    /\ IF buy_listing_check(listing_id, quantity) # OK
       THEN Raise("buy_listing", buy_listing_check(listing_id, quantity))
       ELSE /\ pending' = Append(pending,
                              Call(buyer, listing_id, quantity,
                                   Get(listings, listing_id).quantity))
            /\ UNCHANGED <<tables, files, lastOp, result, ret, posted,
                           failed_writes>>

\* buy_listing from the creation of the order on (lines 736 to 752), for
\* the i-th of the calls that wait
buy_listing_mutate(i) ==
    /\ i \in DOMAIN pending
    /\ \E order_id \in generate_id(orders) :
          LET call == pending[i]
              listing == Get(listings, call.listing_id)
              order == new_order(order_id, call.buyer, listing,
                                 call.quantity)
          IN  /\ orders' = DictPut(orders, order)
              /\ listings' = DictPut(listings,
                                     bought(listing, call.quantity))
              /\ pending' = SubSeq(pending, 1, i - 1)
                               \o SubSeq(pending, i + 1, Len(pending))
              /\ UNCHANGED <<users, items, posted, failed_writes>>
              /\ save_all_csv(users, items, listings', orders')
              /\ lastOp' = "buy_listing"
              /\ result' = OK
              /\ ret' = <<order>>

\* the operations that run to their end, and buy_listing in two steps
NextThreads ==
    \/ \E username \in IOUsernameInputs, password \in IOPasswordInputs :
          register(username, password)
    \/ \E i \in DOMAIN users, f \in IOPostInputs :
          post_listing(users[i], f.name, f.category, f.brand, f.condition,
                       f.description, f.price, f.quantity)
    \/ \E i \in DOMAIN users, listing_id \in ListingIdInputs :
          delete_listing(users[i], listing_id)
    \/ \E i \in DOMAIN users, listing_id \in ListingIdInputs,
          quantity \in BuyQuantityInputs :
          buy_listing_validate(users[i], listing_id, quantity)
    \/ \E i \in 1 .. MaxCalls : buy_listing_mutate(i)

SpecThreads == Init /\ [][NextThreads]_vars

----------------------------------------------------------------------------
(* The loop of generate_id.  In the operations above generate_id is the    *)
(* set of the values its loop can return.  Here the loop runs: a call of   *)
(* register, post_listing or buy_listing that has passed its checks waits  *)
(* in pending while generate_id draws a value (line 127) and looks for it  *)
(* among the keys of the table (line 128); the call goes on when a value   *)
(* is returned, and then goes on from that value.  An iteration that       *)
(* draws a key changes nothing but the local variable of the loop.  One    *)
(* call runs at a time.                                                    *)

\* a call that has called generate_id: the operation, its arguments, the
\* ids of its earlier calls of generate_id, and the value generate_id has
\* returned (<<>> while it is in the loop)
Drawing(op, args, got) ==
    [op |-> op, args |-> args, ids |-> got, returned |-> <<>>]

\* the table the call has passed to generate_id
existing(call) ==
    CASE call.op = "register" -> users
      [] call.op = "post_listing" /\ call.ids = <<>> -> items
      [] call.op = "post_listing" /\ call.ids # <<>> -> listings
      [] call.op = "buy_listing" -> orders

register_call(username, password) ==
    /\ pending = <<>>
    /\ IF register_check(username, password) # OK
       THEN Raise("register", register_check(username, password))
       ELSE /\ pending' = << Drawing("register", <<username, password>>,
                                     <<>>) >>
            /\ UNCHANGED <<tables, files, lastOp, result, ret, posted,
                           failed_writes>>

post_listing_call(seller, f) ==
    /\ pending = <<>>
    /\ IF post_listing_check(f.category, f.condition, f.price, f.quantity)
             # OK
       THEN Raise("post_listing",
                  post_listing_check(f.category, f.condition, f.price,
                                     f.quantity))
       ELSE /\ pending' = << Drawing("post_listing", <<seller, f>>,
                                     <<>>) >>
            /\ UNCHANGED <<tables, files, lastOp, result, ret, posted,
                           failed_writes>>

buy_listing_call(buyer, listing_id, quantity) ==
    /\ pending = <<>>
    /\ IF buy_listing_check(listing_id, quantity) # OK
       THEN Raise("buy_listing", buy_listing_check(listing_id, quantity))
       ELSE /\ pending' = << Drawing("buy_listing",
                                     <<buyer, listing_id, quantity>>,
                                     <<>>) >>
            /\ UNCHANGED <<tables, files, lastOp, result, ret, posted,
                           failed_writes>>

\* the operation, from the value generate_id has returned to it
returned(call, value) ==
    CASE call.op = "register" ->
            LET user == User(value, title_case(call.args[1]), call.args[2])
            IN  /\ users' = DictPut(users, user)
                /\ UNCHANGED <<items, listings, orders, posted>>
                /\ save_all_csv(users', items, listings, orders)
                /\ pending' = <<>>
                /\ lastOp' = "register"
                /\ result' = OK
                /\ ret' = <<user>>
      [] call.op = "post_listing" /\ call.ids = <<>> ->
            LET f == call.args[2]
                item == Item(value, title_case(f.name),
                             title_case(f.category), title_case(f.brand),
                             upper(strip(f.condition)),
                             title_case(f.description))
            IN  /\ items' = DictPut(items, item)
                /\ pending' = << [call EXCEPT !.ids = <<value>>,
                                              !.returned = <<>>] >>
                /\ UNCHANGED <<users, listings, orders, files, lastOp,
                               result, ret, posted>>
      [] call.op = "post_listing" /\ call.ids # <<>> ->
            LET f == call.args[2]
                listing == Listing(value, call.ids[1], call.args[1].id,
                                   round_2(f.price), f.quantity, TRUE, FALSE)
            IN  /\ listings' = DictPut(listings, listing)
                /\ posted' = Append(posted, [id |-> listing.id,
                                             quantity |-> f.quantity])
                /\ UNCHANGED <<users, items, orders>>
                /\ save_all_csv(users, items, listings', orders)
                /\ pending' = <<>>
                /\ lastOp' = "post_listing"
                /\ result' = OK
                /\ ret' = <<listing>>
      [] call.op = "buy_listing" ->
            LET listing == Get(listings, call.args[2])
                order == new_order(value, call.args[1], listing,
                                   call.args[3])
            IN  /\ orders' = DictPut(orders, order)
                /\ listings' = DictPut(listings,
                                       bought(listing, call.args[3]))
                /\ UNCHANGED <<users, items, posted>>
                /\ save_all_csv(users, items, listings', orders')
                /\ pending' = <<>>
                /\ lastOp' = "buy_listing"
                /\ result' = OK
                /\ ret' = <<order>>

\* the operation goes on from the value generate_id has returned
resume ==
    /\ pending # <<>>
    /\ pending[1].returned # <<>>
    /\ UNCHANGED failed_writes
    /\ returned(pending[1], pending[1].returned[1])

\* mutant of generate_id_iteration: the value drawn is returned without a
\* look at the keys
generate_id_iteration_unchecked(v) ==
    /\ pending # <<>>
    /\ pending[1].returned = <<>>
    /\ pending' = << [pending[1] EXCEPT !.returned = <<int_str(v)>>] >>
    /\ UNCHANGED <<tables, files, lastOp, result, ret, posted,
                   failed_writes>>

\* one turn of the loop: value = str(random.randint(100000, 999999)), for
\* the identifiers of the model, returned if it is not in existing
generate_id_iteration(v) ==
    /\ pending # <<>>
    /\ pending[1].returned = <<>>
    /\ IF int_str(v) \in Keys(existing(pending[1]))
       THEN UNCHANGED pending
       ELSE pending' = << [pending[1] EXCEPT !.returned = <<int_str(v)>>] >>
    /\ UNCHANGED <<tables, files, lastOp, result, ret, posted,
                   failed_writes>>

NextDraw ==
    \/ \E username \in IOUsernameInputs, password \in IOPasswordInputs :
          register_call(username, password)
    \/ \E i \in DOMAIN users, f \in IOPostInputs :
          post_listing_call(users[i], f)
    \/ \E i \in DOMAIN users, listing_id \in ListingIdInputs,
          quantity \in 1 .. MaxQty :
          buy_listing_call(users[i], listing_id, quantity)
    \/ \E v \in IdLow .. IdTop : generate_id_iteration(v)
    \/ resume
    \/ \E i \in DOMAIN users, listing_id \in ListingIdInputs :
          pending = <<>> /\ delete_listing(users[i], listing_id)
    \/ pending = <<>> /\ load_all_csv

SpecDraw == Init /\ [][NextDraw]_vars

\* random.randint is fair and the program does not stop in the loop: while
\* a value that is not a key can be drawn, one is drawn in the end
SpecDrawFair ==
    /\ SpecDraw
    /\ WF_vars(\E v \in IdLow .. IdTop : generate_id_iteration(v))

----------------------------------------------------------------------------
(* Stores the program finds.  The files are outside the program: it can be *)
(* started on no file, on files it wrote, or on files that were edited,    *)
(* with blank lines and repeated keys.                                     *)

\* a users file with a row under 100000, a row without a key and a second
\* row under 100000
EditedUsersFile ==
    [exists |-> TRUE, header |-> user_headers,
     rows |-> << [user_id |-> int_str(IdLow), username |-> <<"A","l">>,
                  password |-> <<"p","w">>],
                 [user_id |-> <<>>, username |-> <<"B","o">>,
                  password |-> <<"p","w">>],
                 [user_id |-> int_str(IdLow), username |-> <<"C","y">>,
                  password |-> <<"x">>] >>]

\* an orders file with a row without a key between two rows with keys
EditedOrdersFile ==
    [exists |-> TRUE, header |-> order_headers,
     rows |-> << [order_id |-> int_str(IdLow), buyer_id |-> int_str(IdLow),
                  seller_id |-> int_str(IdLow),
                  listing_id |-> int_str(IdLow),
                  unit_price |-> <<"2",".","5","1">>, quantity |-> <<"1">>,
                  total_price |-> <<"2",".","5","1">>,
                  status |-> COMPLETED],
                 [order_id |-> <<>>, buyer_id |-> <<>>, seller_id |-> <<>>,
                  listing_id |-> <<>>, unit_price |-> <<>>,
                  quantity |-> <<>>, total_price |-> <<>>,
                  status |-> <<>>],
                 [order_id |-> int_str(IdTop), buyer_id |-> int_str(IdLow),
                  seller_id |-> int_str(IdLow),
                  listing_id |-> int_str(IdLow),
                  unit_price |-> <<"2",".","5","1">>, quantity |-> <<"1">>,
                  total_price |-> <<"2",".","5","1">>,
                  status |-> COMPLETED] >>]

\* the stores a run starts on: the four files, users, items, listings,
\* orders
StoreInputs ==
    { <<NoFile, NoFile, NoFile, NoFile>>,
      <<EditedUsersFile, NoFile, NoFile, NoFile>>,
      <<save_csv(user_headers, <<>>), NoFile, NoFile, EditedOrdersFile>> }

\* the state after construction, on any of the stores
InitStore ==
    /\ users = <<>>
    /\ items = <<>>
    /\ listings = <<>>
    /\ orders = <<>>
    /\ \E store \in StoreInputs :
          /\ users_csv = store[1]
          /\ items_csv = store[2]
          /\ listings_csv = store[3]
          /\ orders_csv = store[4]
    /\ lastOp = "init"
    /\ result = "ok"
    /\ ret = <<>>
    /\ posted = <<>>
    /\ failed_writes = 0
    /\ pending = <<>>

SpecStore == InitStore /\ [][NextIO]_vars

----------------------------------------------------------------------------
(* Properties.                                                             *)

Range(seq) == {seq[i] : i \in DOMAIN seq}

RECURSIVE sum_quantity(_)
sum_quantity(os) ==
    IF os = <<>> THEN 0 ELSE Head(os).quantity + sum_quantity(Tail(os))

\* the units of a listing that the orders of the table account for
ordered(listing_id) ==
    sum_quantity(SelectSeq(orders, LAMBDA o : o.listing_id = listing_id))

\* the quantity a listing was posted with
posted_quantity(listing_id) == Get(posted, listing_id).quantity

FailedBuyChangesNothing ==
    [][ (lastOp' = "buy_listing" /\ result' # OK)
            => /\ result' \in { "Listing not found.",
                                "Listing not available.",
                                "Invalid quantity." }
               /\ UNCHANGED <<users, items, listings, orders>> ]_vars

\* a purchase of a sold-out listing has just been refused
FailedBuyWitness ==
    /\ lastOp = "buy_listing"
    /\ result = "Listing not available."
    /\ orders # <<>>
    /\ \E i \in DOMAIN listings :
          listings[i].quantity = 0 /\ ~listings[i].deleted

\* C3: a deleted listing is inactive, and a listing that is deleted stays
\* in the table and stays deleted whatever operation comes next.
DeletedIsTerminal ==
    /\ [](\A i \in DOMAIN listings :
              listings[i].deleted => ~listings[i].active)
    /\ [][ \A i \in DOMAIN listings :
              listings[i].deleted
                  => /\ listings[i].id \in Keys(listings')
                     /\ Get(listings', listings[i].id).deleted ]_vars

\* every listing is deleted, and a purchase has just been refused
DeletedWitness ==
    /\ listings # <<>>
    /\ \A i \in DOMAIN listings : listings[i].deleted
    /\ lastOp = "buy_listing"
    /\ result = "Listing not available."

\* C4: every listing with quantity <= 0 is inactive.
NoStockInactive ==
    \A i \in DOMAIN listings :
        listings[i].quantity <= 0 => ~listings[i].active

\* a purchase has just taken the last units of a listing
NoStockWitness ==
    /\ lastOp = "buy_listing"
    /\ result = OK
    /\ \E i \in DOMAIN listings :
          /\ listings[i].id = ret[1].listing_id
          /\ listings[i].quantity = 0
          /\ ~listings[i].deleted

\* C5 as stated: register fails with "Username already exists." whenever
\* the normalized username equals, ignoring case, the username of a user in
\* the table, whatever the password.
ConflictWheneverTaken ==
    \A username \in UsernameInputs, password \in PasswordInputs :
        username_taken(title_case(username))
            => register_check(username, password)
                   = "Username already exists."

\* C5, amended: no two users of the table have usernames that are equal
\* ignoring case; register with a non-empty password fails with "Username
\* already exists." whenever the normalized username equals, ignoring case,
\* the username of a user in the table; and a step that changes the table
\* of users adds one user, whose username no user had before, ignoring case.
UsernamesUnique ==
    /\ [](\A i, j \in DOMAIN users :
              i # j => lower(users[i].username) # lower(users[j].username))
    /\ [](\A username \in UsernameInputs, password \in PasswordInputs :
              (password # <<>> /\ username_taken(title_case(username)))
                  => register_check(username, password)
                         = "Username already exists.")
    /\ [][ users' # users
              => /\ Len(users') = Len(users) + 1
                 /\ SubSeq(users', 1, Len(users)) = users
                 /\ ~username_taken(users'[Len(users')].username) ]_vars

\* two users are registered, and a registration under a name in use has
\* just been refused
UsernamesUniqueWitness ==
    /\ lastOp = "register"
    /\ result = "Username already exists."
    /\ Len(users) = 2

\* the operations that save
Mutating == { "register", "post_listing", "delete_listing", "buy_listing" }

\* every file exists and holds, under its header, the rows of its table
Persisted ==
    /\ users_csv    = save_csv(user_headers, users)
    /\ items_csv    = save_csv(item_headers, items)
    /\ listings_csv = save_csv(listing_headers, listings)
    /\ orders_csv   = save_csv(order_headers, orders)

\* what is read from every file is the table in memory
Agree ==
    /\ load_csv(users_csv, user_headers, "user_from_row", "user_id") = users
    /\ load_csv(items_csv, item_headers, "item_from_row", "item_id") = items
    /\ load_csv(listings_csv, listing_headers, "listing_from_row",
                "listing_id") = listings
    /\ load_csv(orders_csv, order_headers, "order_from_row", "order_id")
           = orders

\* C6: autosave.  When register, post_listing, delete_listing or
\* buy_listing has returned, each of the four files holds the rows of its
\* table; an operation that fails leaves the four files as they were; and
\* in every state what the files hold is what the tables hold.
Autosave ==
    /\ []((lastOp \in Mutating /\ result = OK) => Persisted)
    /\ [][ result' # OK => UNCHANGED files ]_vars
    /\ []Agree

\* a purchase has just been saved: its order, its listing and the user who
\* sold and bought are in the files
AutosaveWitness ==
    /\ lastOp = "buy_listing"
    /\ result = OK
    /\ Len(orders_csv.rows) = 1
    /\ Len(listings_csv.rows) = 1
    /\ Len(users_csv.rows) = 1

\* a table written by _save_csv and read back by _load_csv
saved_and_loaded(headers, source, from_row_func, id_key) ==
    load_csv(save_csv(headers, source), headers, from_row_func, id_key)

\* C7: persistence round trip.  Each table, written by _save_csv and read
\* back by _load_csv, comes back as it was: the same keys in the same
\* order, and under each key an entity with the same value in every field
\* (the price, quantity, active and deleted of a listing; the unit_price,
\* quantity, total_price and status of an order).  So load_all_csv, run on
\* the files save_all_csv has written, leaves the four tables as they are.
RoundTrip ==
    /\ [](/\ saved_and_loaded(user_headers, users, "user_from_row",
                              "user_id") = users
          /\ saved_and_loaded(item_headers, items, "item_from_row",
                              "item_id") = items
          /\ saved_and_loaded(listing_headers, listings, "listing_from_row",
                              "listing_id") = listings
          /\ saved_and_loaded(order_headers, orders, "order_from_row",
                              "order_id") = orders)
    /\ [][ (Persisted /\ lastOp' = "load_all_csv")
              => UNCHANGED tables ]_vars

\* the tables hold an order of two units at 2.51, its sold-out listing, and
\* load_all_csv has just read them back
RoundTripWitness ==
    /\ lastOp = "load_all_csv"
    /\ \E i \in DOMAIN orders :
          /\ orders[i].unit_price = 251
          /\ orders[i].total_price = 502
    /\ \E i \in DOMAIN listings :
          /\ listings[i].price = 251
          /\ listings[i].quantity = 0
          /\ ~listings[i].active
          /\ ~listings[i].deleted

\* C8: delete_listing, called for a listing of the table by a user whose
\* id is not the seller_id of the listing, fails with "You can only delete
\* your own listings."; the step leaves every field of every listing, the
\* other three tables and the four files as they were.
NonOwnerDeleteRefused ==
    /\ [](\A i \in DOMAIN users, j \in DOMAIN listings :
              listings[j].seller_id # users[i].id
                  => delete_listing_check(users[i], listings[j].id)
                         = "You can only delete your own listings.")
    /\ [][ (lastOp' = "delete_listing"
              /\ result' = "You can only delete your own listings.")
              => UNCHANGED <<tables, files>> ]_vars

\* a user who is not the seller has just been refused the deletion of a
\* listing that is on sale
NonOwnerDeleteWitness ==
    /\ lastOp = "delete_listing"
    /\ result = "You can only delete your own listings."
    /\ Len(users) = 2
    /\ \E j \in DOMAIN listings :
          listings[j].active /\ ~listings[j].deleted

\* the ids of the listings of a result
ids(found) == { found[k].id : k \in DOMAIN found }

\* C9: when buy_listing has returned an order that took the last units of
\* a listing, the listing is inactive and not deleted; and a listing whose
\* orders add up to the quantity it was posted with has quantity 0, is
\* inactive, and is in the result of neither search, for the queries of the
\* model and for the category and the name of its own item, in that state
\* and in every later one.
SoldOutDisappears ==
    /\ (lastOp = "buy_listing" /\ result = OK
           /\ Get(listings, ret[1].listing_id).quantity = 0)
          => /\ ~Get(listings, ret[1].listing_id).active
             /\ ~Get(listings, ret[1].listing_id).deleted
    /\ \A i \in DOMAIN listings :
          ordered(listings[i].id) = posted_quantity(listings[i].id)
              => /\ listings[i].quantity = 0
                 /\ ~listings[i].active
                 /\ \A category \in CategoryQueries
                        \cup { Get(items, listings[i].item_id).category } :
                        listings[i].id
                            \notin ids(search_by_category_value(category))
                 /\ \A full_name \in NameQueries
                        \cup { Get(items, listings[i].item_id).name } :
                        listings[i].id
                            \notin ids(search_by_full_name_value(full_name))

\* a listing is sold out and not deleted, and a search by name has just
\* come back empty
SoldOutWitness ==
    /\ lastOp = "search_by_full_name"
    /\ ret = <<>>
    /\ \E i \in DOMAIN listings :
          /\ ordered(listings[i].id) = posted_quantity(listings[i].id)
          /\ ~listings[i].deleted

\* the listings on sale whose item is of the category, or has the name,
\* that the query normalizes to
on_sale(listing) ==
    ~listing.deleted /\ listing.active /\ listing.quantity > 0
of_category(category) ==
    { listing \in Range(listings) :
        /\ on_sale(listing)
        /\ \E item \in Range(items) :
              /\ item.id = listing.item_id
              /\ item.category = title_case(category) }
of_name(full_name) ==
    { listing \in Range(listings) :
        /\ on_sale(listing)
        /\ \E item \in Range(items) :
              /\ item.id = listing.item_id
              /\ item.name = title_case(full_name) }

\* C10: search_by_category and search_by_full_name return the listings that
\* are not deleted, active, of quantity > 0 and whose item has the category
\* (the name) the query normalizes to: each of them once, and no other
\* listing; the list a search has just returned is that list; and a search
\* changes no table and no file.
SearchExact ==
    /\ [](\A category \in CategoryQueries :
             /\ Range(search_by_category_value(category))
                    = of_category(category)
             /\ Len(search_by_category_value(category))
                    = Cardinality(of_category(category)))
    /\ [](\A full_name \in NameQueries :
             /\ Range(search_by_full_name_value(full_name))
                    = of_name(full_name)
             /\ Len(search_by_full_name_value(full_name))
                    = Cardinality(of_name(full_name)))
    /\ [](lastOp = "search_by_category"
             => \E category \in CategoryQueries :
                   /\ Range(ret) = of_category(category)
                   /\ Len(ret) = Cardinality(of_category(category)))
    /\ [](lastOp = "search_by_full_name"
             => \E full_name \in NameQueries :
                   /\ Range(ret) = of_name(full_name)
                   /\ Len(ret) = Cardinality(of_name(full_name)))
    /\ [][ lastOp' \in { "search_by_category", "search_by_full_name" }
              => UNCHANGED <<tables, files>> ]_vars

\* a search by category has just returned one of two listings
SearchExactWitness ==
    /\ lastOp = "search_by_category"
    /\ Len(ret) = 1
    /\ Len(listings) = 2
    /\ \A i \in DOMAIN listings : on_sale(listings[i])

grown_by_one(old, new) ==
    /\ Len(new) = Len(old) + 1
    /\ SubSeq(new, 1, Len(old)) = old
    /\ new[Len(new)].id \notin Keys(old)

\* C13: identifiers are unique within each table.  No identifier
\* generate_id may return for a table is a key of it, no two entries of a
\* table have the same id, and a successful register, post_listing or
\* buy_listing grows its table (users; items and listings; orders) by one
\* entry under a key that was not in it, overwriting none.
IdsUnique ==
    /\ [](/\ generate_id(users) \cap Keys(users) = {}
          /\ generate_id(items) \cap Keys(items) = {}
          /\ generate_id(listings) \cap Keys(listings) = {}
          /\ generate_id(orders) \cap Keys(orders) = {}
          /\ Cardinality(Keys(users)) = Len(users)
          /\ Cardinality(Keys(items)) = Len(items)
          /\ Cardinality(Keys(listings)) = Len(listings)
          /\ Cardinality(Keys(orders)) = Len(orders))
    /\ [][ result' = OK
              => /\ lastOp' = "register" => grown_by_one(users, users')
                 /\ lastOp' = "post_listing"
                       => /\ grown_by_one(items, items')
                          /\ grown_by_one(listings, listings')
                 /\ lastOp' = "buy_listing"
                       => grown_by_one(orders, orders') ]_vars

\* every identifier but one is taken in three tables, and post_listing has
\* just drawn the last for its item and for its listing
IdsUniqueWitness ==
    /\ lastOp = "post_listing"
    /\ result = OK
    /\ Len(items) = 2
    /\ Len(listings) = 2
    /\ ret[1].id = listings[2].id
    /\ listings[1].id # listings[2].id
    /\ items[1].id # items[2].id

LifecycleMoves ==
    { <<"ACTIVE", "ACTIVE">>, <<"ACTIVE", "SOLD_OUT">>,
      <<"ACTIVE", "DELETED">>, <<"SOLD_OUT", "SOLD_OUT">>,
      <<"SOLD_OUT", "DELETED">>, <<"DELETED", "DELETED">> }

\* C15: the lifecycle of a listing.  Every listing is ACTIVE (not deleted,
\* active, quantity > 0), SOLD_OUT (not deleted, inactive, quantity = 0) or
\* DELETED; none is INACTIVE (not deleted, inactive, quantity > 0); a
\* listing enters the table ACTIVE; and a step moves a listing from ACTIVE
\* to SOLD_OUT or DELETED, from SOLD_OUT to DELETED, or leaves it in its
\* state: never from SOLD_OUT or DELETED back to ACTIVE.
Lifecycle ==
    /\ [](\A i \in DOMAIN listings :
             LET listing == listings[i]
             IN  /\ listing_status(listing)
                        \in { "ACTIVE", "SOLD_OUT", "DELETED" }
                 /\ listing_status(listing) = "ACTIVE"
                        => listing.active /\ listing.quantity > 0
                 /\ listing_status(listing) = "SOLD_OUT"
                        => ~listing.active /\ listing.quantity = 0
                 /\ ~(~listing.deleted /\ ~listing.active
                          /\ listing.quantity > 0))
    /\ [][ \A j \in DOMAIN listings' :
              IF listings'[j].id \in Keys(listings)
              THEN <<listing_status(Get(listings, listings'[j].id)),
                     listing_status(listings'[j])>> \in LifecycleMoves
              ELSE listing_status(listings'[j]) = "ACTIVE" ]_vars

\* a listing that was sold out has just been deleted
LifecycleWitness ==
    /\ lastOp = "delete_listing"
    /\ result = OK
    /\ \E i \in DOMAIN listings :
          /\ listings[i].deleted
          /\ listings[i].quantity = 0
          /\ ordered(listings[i].id) > 0

\* how a call of buy_listing is to end, by the precedence of C16
buy_listing_outcome(listing_id, quantity) ==
    IF \A i \in DOMAIN listings : listings[i].id # listing_id
    THEN "Listing not found."
    ELSE IF \E i \in DOMAIN listings :
               /\ listings[i].id = listing_id
               /\ listing_status(listings[i]) # "ACTIVE"
    THEN "Listing not available."
    ELSE IF quantity < 1
              \/ \E i \in DOMAIN listings :
                    /\ listings[i].id = listing_id
                    /\ listings[i].quantity < quantity
    THEN "Invalid quantity."
    ELSE OK

\* C16: buy_listing fails by a fixed precedence.  An unknown listing_id
\* gives "Listing not found."; otherwise a listing that is deleted,
\* inactive or without stock gives "Listing not available.", whatever the
\* quantity asked; otherwise a quantity <= 0 or above the stock gives
\* "Invalid quantity."; otherwise the purchase succeeds.  In every state
\* and for every buyer, listing_id and quantity, the call can end that way
\* and in no other.
BuyFailurePrecedence ==
    \A i \in DOMAIN users, listing_id \in ListingIdInputs,
       quantity \in BuyQuantityInputs :
        LET outcome == buy_listing_outcome(listing_id, quantity)
        IN  /\ ~ENABLED (/\ buy_listing(users[i], listing_id, quantity)
                         /\ result' # outcome)
            /\ (outcome # OK \/ (Done < MaxOps /\ generate_id(orders) # {}))
                   => ENABLED (/\ buy_listing(users[i], listing_id, quantity)
                               /\ result' = outcome)

\* a listing is on sale, another is deleted, and a purchase has just been
\* refused because the listing is not available
BuyFailureWitness ==
    /\ lastOp = "buy_listing"
    /\ result = "Listing not available."
    /\ \E i, j \in DOMAIN listings :
          /\ listing_status(listings[i]) = "DELETED"
          /\ listing_status(listings[j]) = "ACTIVE"

\* C17: delete_listing is idempotent for the owner.  Called by its seller
\* for a listing that is deleted, it can return, and cannot but return,
\* without an error and with the four tables as they were: the listing
\* deleted and inactive, its quantity and price and every other entity
\* untouched.
DeleteIdempotent ==
    \A i \in DOMAIN users, j \in DOMAIN listings :
        (listings[j].deleted /\ listings[j].seller_id = users[i].id)
            => /\ ~listings[j].active
               /\ ENABLED (/\ delete_listing(users[i], listings[j].id)
                           /\ result' = OK
                           /\ UNCHANGED tables)
               /\ ~ENABLED (/\ delete_listing(users[i], listings[j].id)
                            /\ (result' # OK \/ tables' # tables))

\* of two listings of 2 units one is deleted, with its units, and
\* delete_listing has just returned
DeleteIdempotentWitness ==
    /\ lastOp = "delete_listing"
    /\ result = OK
    /\ Len(listings) = 2
    /\ \E j \in DOMAIN listings :
          /\ listings[j].deleted
          /\ listings[j].quantity = MaxQty

\* the users login is to find: those whose username is the normalized
\* input and whose password is the input
matching(username, password) ==
    LET uname == title_case(username)
    IN  { user \in Range(users) :
            user.username = uname /\ user.password = password }

\* C18: login(username, password) returns a user exactly when a user of
\* the table has the normalized username and the very password, then that
\* user, and None otherwise; it raises nothing and changes no table and no
\* file.  When register(username, password) returns a user, login with
\* the same two arguments returns that user, then and in every later
\* state where the user is in the table.
LoginExact ==
    /\ [](\A username \in LoginUsernameInputs \cup UsernameInputs,
             password \in LoginPasswordInputs \cup PasswordInputs :
             LET found == login_value(username, password)
                 users_matching == matching(username, password)
             IN  /\ Cardinality(users_matching) <= 1
                 /\ Range(found) = users_matching
                 /\ Len(found) = Cardinality(users_matching))
    /\ [](lastOp = "login"
             => /\ result = OK
                /\ \E username \in LoginUsernameInputs,
                      password \in LoginPasswordInputs :
                      /\ Range(ret) = matching(username, password)
                      /\ Len(ret) = Cardinality(matching(username, password)))
    /\ [][ lastOp' = "login" => UNCHANGED <<tables, files>> ]_vars
    /\ [][ (lastOp' = "register" /\ result' = OK)
              => \E username \in UsernameInputs, password \in PasswordInputs :
                    /\ ret'[1].username = title_case(username)
                    /\ ret'[1].password = password
                    /\ login_value(username, password)' = ret' ]_vars

\* two users are registered and login has just returned one of them
LoginExactWitness ==
    /\ lastOp = "login"
    /\ Len(users) = 2
    /\ Len(ret) = 1
    /\ ret[1] \in Range(users)

\* the arguments post_listing is to refuse
invalid_form(f) ==
    \/ title_case(f.category) \notin
          { Electronics, Books, Furniture, Fashion, Sports, Home, Toys,
            Others }
    \/ upper(strip(f.condition)) \notin
          { COND_NEW, LIKE_NEW, VERY_GOOD, GOOD, ACCEPTABLE }
    \/ f.price <= 0
    \/ f.quantity <= 0

\* the messages post_listing fails with
PostRefusals == { "Unknown category.", "Unknown condition.",
                  "Price and quantity must be positive." }

\* a step of post_listing that fails leaves the four tables as they were
PostRefusedLeaves ==
    (lastOp' = "post_listing" /\ result' # OK)
        => result' \in PostRefusals /\ UNCHANGED tables

\* a step of post_listing that succeeds adds one item and one listing,
\* active and not deleted, of the new item, of a user and of quantity > 0
PostAdds ==
    (lastOp' = "post_listing" /\ result' = OK)
        => /\ grown_by_one(items, items')
           /\ grown_by_one(listings, listings')
           /\ UNCHANGED <<users, orders>>
           /\ ret'[1] = listings'[Len(listings')]
           /\ ret'[1].item_id = items'[Len(items')].id
           /\ ret'[1].seller_id \in Keys(users)
           /\ ret'[1].active
           /\ ~ret'[1].deleted
           /\ ret'[1].quantity > 0

\* the listing a step of post_listing adds has a price > 0
PostAddsPrice ==
    (lastOp' = "post_listing" /\ result' = OK) => ret'[1].price > 0

\* C19: post_listing, given a category that does not normalize to one of
\* the 8 categories, a condition that is not one of the 5 when upper-cased,
\* a price <= 0 or a quantity <= 0, fails with one of its three messages
\* and leaves the four tables as they were; when it succeeds it adds one
\* item and one listing, the listing it returns, bound to the new item and
\* to a user, the seller, active and not deleted, with price > 0 and
\* quantity > 0.
PostListingContract ==
    /\ [](\A f \in PostInputs :
             invalid_form(f)
                 <=> post_listing_check(f.category, f.condition, f.price,
                                        f.quantity) \in PostRefusals)
    /\ [][ PostRefusedLeaves /\ PostAdds /\ PostAddsPrice ]_vars

\* what holds of C19: the same, the price of the new listing left aside
PostListingContractButPrice ==
    /\ [](\A f \in PostInputs :
             invalid_form(f)
                 <=> post_listing_check(f.category, f.condition, f.price,
                                        f.quantity) \in PostRefusals)
    /\ [][ PostRefusedLeaves /\ PostAdds ]_vars

\* C20: users, items and listings are never removed.  Every step keeps
\* every key of the three tables; delete_listing sets the flags of the
\* listing and leaves it in the table, and its item in the table of items.
NeverRemoved ==
    /\ [](\A i \in DOMAIN listings :
             listings[i].deleted => listings[i].item_id \in Keys(items))
    /\ [][ /\ Keys(users) \subseteq Keys(users')
           /\ Keys(items) \subseteq Keys(items')
           /\ Keys(listings) \subseteq Keys(listings')
           /\ (lastOp' = "delete_listing" /\ result' = OK)
                 => /\ Keys(listings') = Keys(listings)
                    /\ UNCHANGED <<users, items>> ]_vars

\* the only listing has just been deleted; it is in the table, and so are
\* its item and the two users
NeverRemovedWitness ==
    /\ lastOp = "delete_listing"
    /\ result = OK
    /\ Len(users) = 2
    /\ Len(items) = 1
    /\ Len(listings) = 1
    /\ listings[1].deleted

\* the credentials register is to refuse as empty: the username, trimmed
\* and with its runs of whitespace collapsed, or the password, is empty
empty_credentials(username, password) ==
    \/ \A i \in DOMAIN username : IsSpace(username[i])
    \/ password = <<>>

\* what a step of register(username, password) is to do
registered(username, password) ==
    IF empty_credentials(username, password)
    THEN /\ result' = "Username and password cannot be empty."
         /\ UNCHANGED <<tables, files>>
    ELSE IF username_taken(title_case(username))
    THEN result' # OK /\ UNCHANGED <<tables, files>>
    ELSE /\ result' = OK
         /\ Len(users') = Len(users) + 1
         /\ SubSeq(users', 1, Len(users)) = users
         /\ users'[Len(users')].username = title_case(username)
         /\ users'[Len(users')].password = password
         /\ users'[Len(users')].id \notin Keys(users)
         /\ ret' = <<users'[Len(users')]>>
         /\ UNCHANGED <<items, listings, orders>>

\* C21: register fails with "Username and password cannot be empty.",
\* adding no user, when the normalized username or the password is empty;
\* otherwise, when no user has the normalized username ignoring case, it
\* passes its checks and a step of it adds exactly one user, with the
\* normalized username ("al" and " AL " give "Al", "b  O" gives "B O") and
\* with the password as it was given.
RegisterContract ==
    /\ [](\A username \in UsernameInputs, password \in PasswordInputs :
             /\ empty_credentials(username, password)
                   <=> register_check(username, password)
                          = "Username and password cannot be empty."
             /\ (/\ ~empty_credentials(username, password)
                 /\ ~username_taken(title_case(username)))
                   <=> register_check(username, password) = OK)
    /\ [](\A i \in DOMAIN users :
             /\ users[i].username \in { <<"A","l">>, <<"B"," ","O">> }
             /\ users[i].password = <<"p","w">>)
    /\ [][ lastOp' = "register"
              => \A username \in UsernameInputs, password \in PasswordInputs :
                    register(username, password)
                       => registered(username, password) ]_vars

\* Al is registered and register("b  O", "pw") has just returned B O
RegisterContractWitness ==
    /\ lastOp = "register"
    /\ result = OK
    /\ Len(users) = 2
    /\ users[1].username = <<"A","l">>
    /\ ret[1].username = <<"B"," ","O">>
    /\ ret[1].password = <<"p","w">>

\* categories as a caller may spell them, each with the category whose
\* baseline is to be used
CategorySpellings ==
    { <<Electronics, Electronics>>, <<Books, Books>>,
      <<Furniture, Furniture>>, <<Fashion, Fashion>>, <<Sports, Sports>>,
      <<Home, Home>>, <<Toys, Toys>>, <<Others, Others>>,
      <<<<" ","e","l","e","c","t","r","o","n","i","c","s">>, Electronics>>,
      <<<<"T","O","Y","S"," ">>, Toys>>,
      <<<<"u","n","k","n","o","w","n">>, Others>>,
      <<<<>>, Others>> }

\* conditions as a caller may spell them, each with the multiplier to be
\* used, in hundredths
ConditionSpellings ==
    { <<COND_NEW, 100>>, <<LIKE_NEW, 90>>, <<VERY_GOOD, 80>>, <<GOOD, 65>>,
      <<ACCEPTABLE, 50>>,
      <<<<"n","e","w">>, 100>>,
      <<<<" ","l","i","k","e","_","n","e","w"," ">>, 90>>,
      <<<<"u","s","e","d">>, 65>>,
      <<<<"l","i","k","e"," ","n","e","w">>, 65>> }

\* the triple of C22 for a baseline in units and a multiplier in hundredths
suggestion(baseline, multiplier) ==
    LET suggested == round_2(baseline * multiplier * 10)
    IN  <<suggested, round_2(suggested * 9), round_2(suggested * 11)>>

\* C22: price_suggestion is a lookup: suggested is the baseline of the
\* category times the multiplier of the condition, rounded to cents, an
\* unknown category counting as Others and an unknown condition as 0.65;
\* low and high are suggested * 0.9 and suggested * 1.1, rounded to cents,
\* and low <= suggested <= high.  price_suggestion("Unknown", "NEW") is
\* price_suggestion("Others", "NEW"), and price_suggestion("Electronics",
\* "NEW") is (300.00, 270.00, 330.00).  A call returns that triple without
\* an error and leaves the four tables and the four files as they were.
SuggestionLookup ==
    /\ [](lastOp = "price_suggestion"
            => /\ \A c \in CategorySpellings, k \in ConditionSpellings :
                    LET triple == price_suggestion_value(c[1], k[1])
                    IN  /\ triple = suggestion(CATEGORY_BASELINE(c[2]), k[2])
                        /\ triple[2] <= triple[1]
                        /\ triple[1] <= triple[3]
               /\ price_suggestion_value(<<"U","n","k","n","o","w","n">>, COND_NEW)
                     = price_suggestion_value(Others, COND_NEW)
               /\ price_suggestion_value(Electronics, COND_NEW)
                     = <<30000, 27000, 33000>>
               /\ price_suggestion_value(Toys, GOOD) = <<1625, 1462, 1788>>)
    /\ [][ lastOp' = "price_suggestion"
              => /\ result' = OK
                 /\ UNCHANGED <<tables, files>>
                 /\ \A in \in SuggestionInputs :
                       price_suggestion(in[1], in[2])
                          => ret' = price_suggestion_value(in[1], in[2]) ]_vars

\* a listing is posted and price_suggestion("Electronics", "NEW") has just
\* returned (300.00, 270.00, 330.00)
SuggestionLookupWitness ==
    /\ lastOp = "price_suggestion"
    /\ ret = <<30000, 27000, 33000>>
    /\ Len(listings) = 1

\* C23: items and listings are in one-to-one correspondence.  Every item
\* is referenced by exactly one listing, every listing references exactly
\* one item of the table, no two listings have the same item_id, and the
\* two tables have the same number of entries, deleted listings included.
ItemsListingsOneToOne ==
    /\ Len(items) = Len(listings)
    /\ \A i \in DOMAIN items :
          Cardinality({ j \in DOMAIN listings :
                          listings[j].item_id = items[i].id }) = 1
    /\ \A j \in DOMAIN listings :
          Cardinality({ i \in DOMAIN items :
                          items[i].id = listings[j].item_id }) = 1
    /\ \A j, k \in DOMAIN listings :
          j # k => listings[j].item_id # listings[k].item_id

\* two listings are posted, each with its item, and one of them has just
\* been deleted
ItemsListingsWitness ==
    /\ lastOp = "delete_listing"
    /\ result = OK
    /\ Len(listings) = 2
    /\ Len(items) = 2
    /\ listings[1].deleted
    /\ ~listings[2].deleted

\* a failed save has written the files in the order users, items,
\* listings, orders: a file that is touched has every file before it
\* rewritten from the table the operation leaves in memory
WrittenInOrder ==
    /\ items_csv' # items_csv
          => users_csv' = save_csv(user_headers, users')
    /\ listings_csv' # listings_csv
          => /\ users_csv' = save_csv(user_headers, users')
             /\ items_csv' = save_csv(item_headers, items')
    /\ orders_csv' # orders_csv
          => /\ users_csv' = save_csv(user_headers, users')
             /\ items_csv' = save_csv(item_headers, items')
             /\ listings_csv' = save_csv(listing_headers, listings')
    /\ orders_csv' # save_csv(order_headers, orders')
          \/ orders' = orders

\* the operation whose save failed has changed the tables in memory as it
\* does when it succeeds
NotRolledBack ==
    /\ lastOp' = "register"
          => /\ Len(users') = Len(users) + 1
             /\ UNCHANGED <<items, listings, orders>>
    /\ lastOp' = "post_listing"
          => /\ Len(items') = Len(items) + 1
             /\ Len(listings') = Len(listings) + 1
             /\ UNCHANGED <<users, orders>>
    /\ lastOp' = "delete_listing"
          => /\ \E j \in DOMAIN listings :
                   /\ listings'[j] = soft_deleted(listings[j])
                   /\ \A i \in DOMAIN listings :
                         i # j => listings'[i] = listings[i]
             /\ UNCHANGED <<users, items, orders>>
    /\ lastOp' = "buy_listing"
          => /\ Len(orders') = Len(orders) + 1
             /\ \E j \in DOMAIN listings :
                   /\ listings'[j].id = orders'[Len(orders')].listing_id
                   /\ listings'[j].quantity
                         = listings[j].quantity - orders'[Len(orders')].quantity
             /\ UNCHANGED <<users, items>>

\* buy_listing has failed after the write of the listings: the store holds
\* the stock less the units of the order, and not the order
StockWithoutOrder ==
    (lastOp' = "buy_listing"
       /\ listings_csv' = save_csv(listing_headers, listings'))
       => LET order == orders'[Len(orders')]
              stored_listings == load_csv(listings_csv', listing_headers,
                                          "listing_from_row", "listing_id")
              stored_orders == load_csv(orders_csv', order_headers,
                                        "order_from_row", "order_id")
          IN  /\ order \notin Range(orders)
              /\ order \notin Range(stored_orders)
              /\ Get(stored_listings, order.listing_id).quantity
                    = Get(listings, order.listing_id).quantity
                         - order.quantity

\* C24: persistence is not atomic and is not rolled back.  When a write of
\* save_all_csv fails, the operation ends with the error, the change it
\* made to the tables in memory stays, and the files are written in the
\* order users, items, listings, orders up to the write that failed; when
\* buy_listing fails after the listings are written, the store holds the
\* decremented stock without the order.
NotAtomic ==
    [][ result' = OSError
           => /\ WrittenInOrder
              /\ NotRolledBack
              /\ StockWithoutOrder ]_vars

\* the two units of a listing were bought, the write of the orders failed
\* and the files were loaded again: the listing is sold out and there is
\* no order
NotAtomicWitness ==
    /\ lastOp = "load_all_csv"
    /\ failed_writes = 1
    /\ orders = <<>>
    /\ Len(listings) = 1
    /\ listings[1].quantity = 0
    /\ ~listings[1].active
    /\ ~listings[1].deleted

\* the table holds the rows of the file that have a key, and nothing else:
\* its keys are the keys of the rows, without the empty key, and under
\* each key is the entity made of the last row that has the key
holds_exactly(table, file, from_row_func, id_key) ==
    /\ Keys(table) = { file.rows[i][id_key] : i \in DOMAIN file.rows }
                        \ { <<>> }
    /\ \A i, j \in DOMAIN table : i # j => table[i].id # table[j].id
    /\ \A i \in DOMAIN table :
          \E r \in DOMAIN file.rows :
             /\ file.rows[r][id_key] = table[i].id
             /\ \A later \in DOMAIN file.rows :
                   later > r => file.rows[later][id_key] # table[i].id
             /\ table[i] = from_row(from_row_func, file.rows[r])

\* a file that was missing is created with its header and no row, a file
\* that was there is left as it is
ensured(file, after, headers) ==
    IF file.exists THEN after = file
    ELSE after = [exists |-> TRUE, header |-> headers, rows |-> <<>>]

\* C25: load_all_csv replaces each table by the contents of the store.
\* When it has returned, each table holds exactly the rows of its file
\* whose key field is not empty, a later row with the key of an earlier
\* one standing for both, and nothing of what the table held before; a
\* file that did not exist is created with the header only and gives an
\* empty table.
LoadReplaces ==
    [][ lastOp' = "load_all_csv"
           => /\ result' = OK
              /\ ensured(users_csv, users_csv', user_headers)
              /\ ensured(items_csv, items_csv', item_headers)
              /\ ensured(listings_csv, listings_csv', listing_headers)
              /\ ensured(orders_csv, orders_csv', order_headers)
              /\ holds_exactly(users', users_csv', "user_from_row",
                               "user_id")
              /\ holds_exactly(items', items_csv', "item_from_row",
                               "item_id")
              /\ holds_exactly(listings', listings_csv',
                               "listing_from_row", "listing_id")
              /\ holds_exactly(orders', orders_csv', "order_from_row",
                               "order_id")
              /\ ~users_csv.exists => users' = <<>>
              /\ ~items_csv.exists => items' = <<>>
              /\ ~listings_csv.exists => listings' = <<>>
              /\ ~orders_csv.exists => orders' = <<>> ]_vars

\* on the edited users file, a user was registered in memory, the save
\* failed, and load_all_csv has left in the table the one user of the
\* file: Cy under 100000, and neither Al, nor Bo, nor the user registered
LoadReplacesWitness ==
    /\ lastOp = "load_all_csv"
    /\ failed_writes = 1
    /\ users = << User(int_str(IdLow), <<"C","y">>, <<"x">>) >>
    /\ users_csv = EditedUsersFile
    /\ items_csv = save_csv(item_headers, <<>>)
    /\ items = <<>>

\* what the second step of a call of buy_listing does to the stock of its
\* listing: it takes the units of the call from the stock as it is now; if
\* the stock is what the call saw when it was checked, no more is sold
\* than was posted, and the stock falls below zero only if it has gone
\* down since the check
mutated(call) ==
    LET before == Get(listings, call.listing_id)
        after == Get(listings', call.listing_id)
    IN  /\ after.quantity = before.quantity - call.quantity
        /\ call.seen = before.quantity
              => /\ after.quantity >= 0
                 /\ sum_quantity(SelectSeq(orders',
                         LAMBDA o : o.listing_id = call.listing_id))
                       <= posted_quantity(call.listing_id)
        /\ after.quantity < 0 => before.quantity < call.seen

\* C26: no oversell rests on every call running check, change and save as
\* one step.  When calls of buy_listing may run between the stock check
\* and the decrement of another call, a call whose stock was not touched
\* since its check sells no more than was posted, a call decrements below
\* zero only when another call took stock in between, and a state where
\* the orders of a listing add up to more than it was posted with, its
\* quantity negative, is reached.
OversellNeedsInterleaving ==
    [][ \A i \in 1 .. MaxCalls :
           buy_listing_mutate(i) => mutated(pending[i]) ]_vars

\* two calls for a listing of 2 units passed the checks before either
\* took its units: two orders, more units sold than posted, a negative
\* quantity
OversellWitness ==
    /\ pending = <<>>
    /\ Len(orders) = 2
    /\ \E j \in DOMAIN listings :
          /\ listings[j].quantity < 0
          /\ ~listings[j].active
          /\ ordered(listings[j].id) > posted_quantity(listings[j].id)

\* a call is in the loop of generate_id, for its n-th identifier
in_generate_id(n) ==
    /\ pending # <<>>
    /\ pending[1].returned = <<>>
    /\ Len(pending[1].ids) = n - 1

\* an identifier of the space is not a key of the table of the call
some_id_free ==
    \E v \in IdLow .. IdTop : int_str(v) \notin Keys(existing(pending[1]))

\* the table of the call has grown by one entry, under the value
\* generate_id returned
stored_under(call, old, new) ==
    /\ grown_by_one(old, new)
    /\ new[Len(new)].id = call.returned[1]

\* C27: generate_id looks for the value it has drawn among the keys the
\* table has at that moment.  With fair draws a call returns whenever an
\* identifier of the space is not a key of the table; the value returned
\* is not a key, and the operation stores its entity under it as one key
\* more.  When every identifier of the space is a key the call does not
\* return: the register, post_listing or buy_listing that made it does not
\* go on, and no table and no file changes.
GenerateIdTerminates ==
    /\ \A n \in 1 .. 2 :
          (in_generate_id(n) /\ some_id_free) ~> ~in_generate_id(n)
    /\ [][ (pending # <<>> /\ pending[1].returned = <<>>
              /\ ~some_id_free)
              => UNCHANGED vars ]_vars
    /\ [](\A i \in DOMAIN pending :
             pending[i].returned # <<>>
                => pending[i].returned[1] \notin Keys(existing(pending[i])))
    /\ [][ (pending # <<>> /\ pending[1].returned # <<>>)
              => LET call == pending[1]
                 IN  /\ call.op = "register"
                           => stored_under(call, users, users')
                     /\ (call.op = "post_listing" /\ call.ids = <<>>)
                           => stored_under(call, items, items')
                     /\ (call.op = "post_listing" /\ call.ids # <<>>)
                           => stored_under(call, listings, listings')
                     /\ call.op = "buy_listing"
                           => stored_under(call, orders, orders') ]_vars

\* every identifier of the space is the key of an order, a listing has
\* stock, and a call of buy_listing is in the loop of generate_id
GenerateIdWitness ==
    /\ pending # <<>>
    /\ pending[1].op = "buy_listing"
    /\ pending[1].returned = <<>>
    /\ Keys(orders) = { int_str(v) : v \in IdLow .. IdTop }

----------------------------------------------------------------------------
(* Stock.                                                                  *)

\* what is left of a listing and what the orders hold of it make up what
\* it was posted with
conserved(listing) ==
    listing.quantity + ordered(listing.id) = posted_quantity(listing.id)

\* C28: stock conservation.  In every state, for every listing, the
\* remaining quantity plus the quantities of all the orders whose
\* listing_id is that listing equals the quantity the listing was posted
\* with; a delete_listing leaves the quantity of every listing as it was.
StockConserved ==
    /\ [](\A i \in DOMAIN listings : conserved(listings[i]))
    /\ [][ \A u \in DOMAIN users, listing_id \in ListingIdInputs :
              (pending = <<>> /\ delete_listing(users[u], listing_id))
                 => /\ DOMAIN listings' = DOMAIN listings
                    /\ \A i \in DOMAIN listings :
                          listings'[i].quantity = listings[i].quantity ]_vars

\* a listing posted with two units was bought in two purchases and then
\* deleted by its seller, while another listing still has its stock
StockConservedWitness ==
    /\ lastOp = "delete_listing"
    /\ result = OK
    /\ \E i \in DOMAIN listings :
          /\ listings[i].deleted
          /\ listings[i].quantity = 0
          /\ Len(SelectSeq(orders, LAMBDA o :
                              o.listing_id = listings[i].id)) = 2
    /\ \E i \in DOMAIN listings :
          listings[i].quantity > 0 /\ ordered(listings[i].id) = 0

----------------------------------------------------------------------------
(* Frame of the operations on listings.                                    *)

\* the listings other than the target are as they were, and none is added
\* or removed
others_unchanged(listing_id) ==
    /\ DOMAIN listings' = DOMAIN listings
    /\ \A i \in DOMAIN listings :
          listings[i].id # listing_id => listings'[i] = listings[i]

\* a purchase of the listing: its quantity has gone down, nothing but its
\* quantity and its active flag has changed, and one order was added
buy_listing_frame(listing_id) ==
    /\ UNCHANGED <<users, items>>
    /\ others_unchanged(listing_id)
    /\ \A i \in DOMAIN listings :
          listings[i].id = listing_id
             => /\ listings'[i].quantity < listings[i].quantity
                /\ listings'[i]
                      = [listings[i] EXCEPT
                            !.quantity = listings'[i].quantity,
                            !.active = listings'[i].active]
    /\ grown_by_one(orders, orders')

\* a deletion of the listing: nothing but its deleted and active flags has
\* changed
delete_listing_frame(listing_id) ==
    /\ UNCHANGED <<users, items, orders>>
    /\ others_unchanged(listing_id)
    /\ \A i \in DOMAIN listings :
          listings[i].id = listing_id
             => listings'[i] = [listings[i] EXCEPT !.deleted = TRUE,
                                                   !.active = FALSE]

\* C29: frame of the operations on listings.  No step changes the price,
\* the item_id or the seller_id of a listing there is, or raises its
\* quantity.  A buy_listing that succeeds changes only the quantity and
\* the active flag of its listing and adds one order; a delete_listing
\* that succeeds changes only the deleted and active flags of its listing;
\* both leave every other listing, every user and every item as they were.
ListingFrame ==
    /\ [][ \A i \in DOMAIN listings :
              /\ i \in DOMAIN listings'
              /\ listings'[i].id = listings[i].id
              /\ listings'[i].price = listings[i].price
              /\ listings'[i].item_id = listings[i].item_id
              /\ listings'[i].seller_id = listings[i].seller_id
              /\ listings'[i].quantity <= listings[i].quantity ]_vars
    /\ [][ \A u \in DOMAIN users, listing_id \in ListingIdInputs,
              quantity \in BuyQuantityInputs :
              (buy_listing(users[u], listing_id, quantity) /\ result' = OK)
                 => buy_listing_frame(listing_id) ]_vars
    /\ [][ (resume /\ pending[1].op = "buy_listing")
              => buy_listing_frame(pending[1].args[2]) ]_vars
    /\ [][ \A u \in DOMAIN users, listing_id \in ListingIdInputs :
              (delete_listing(users[u], listing_id) /\ result' = OK)
                 => delete_listing_frame(listing_id) ]_vars

\* with two listings, one was bought from and then deleted while the other
\* is as it was posted
ListingFrameWitness ==
    /\ lastOp = "delete_listing"
    /\ result = OK
    /\ Len(listings) = 2
    /\ \E i, j \in DOMAIN listings :
          /\ listings[i].deleted
          /\ ordered(listings[i].id) > 0
          /\ listings[j].active
          /\ listings[j].quantity = posted_quantity(listings[j].id)

====
